---- MODULE Spec2Model ----
(***************************************************************************)
(* Recipe-API: the recipe store, the version ledger, the rating aggregator *)
(* and the scale preview, modelled from src/recipe.                        *)
(*                                                                         *)
(* The database runs in Django's default autocommit mode (settings.py sets *)
(* no ATOMIC_REQUESTS and no handler opens transaction.atomic), so every   *)
(* ORM statement of a handler is one atomic step that is visible to every  *)
(* other request as soon as it is taken.  A request is a process req[p]    *)
(* with a position pc and the Python objects it holds in memory (the       *)
(* loaded instance and its prefetched ingredient list).                    *)
(*                                                                         *)
(* Not modelled: URL routing, authentication, pagination, tags, images and *)
(* the response bodies of the detail serializers.                          *)
(***************************************************************************)
EXTENDS Integers, Sequences, FiniteSets, TLC

----------------------------------------------------------------------------
(* Bounds *)

MaxRecipes == 2
MaxRequests == 2

Procs == {"p1", "p2"}

----------------------------------------------------------------------------
(* Data *)

Users == {"alice", "bob"}
Anonymous == "anon"

IsAuthenticated(u) == u \in Users

RecipeIds == 1..MaxRecipes

\* Recipe field defaults (models.py)
DefaultServingSize == 4
DefaultVisibility == "draft"

\* django.utils.text.slugify on the titles the model uses: lower-cased,
\* everything that is not alphanumeric dropped or turned into a hyphen.
slugify(title) ==
    CASE title = "Pasta" -> "pasta"
      [] title = "pasta" -> "pasta"
      [] title = "Stew"  -> "stew"
      [] title = "!!"    -> ""
      [] OTHER           -> ""

NoRecipe ==
    [exists |-> FALSE, title |-> "", description |-> "", instructions |-> "",
     serving_size |-> 0, cook_time |-> 0, visibility |-> "", author |-> "",
     slug |-> "", average_rating |-> <<0, 1>>, total_ratings |-> 0,
     view_count |-> 0]

\* The fields of a Recipe that RecipeCreateUpdateSerializer writes.
WritableFields ==
    {"title", "description", "serving_size", "cook_time", "instructions",
     "visibility"}

\* Ingredient rows; quantity is DecimalField(decimal_places=2), held in
\* hundredths.
Ing(name, quantity, unit) ==
    [name |-> name, quantity |-> quantity, unit |-> unit, type |-> "main",
     notes |-> ""]

IngFlour == Ing("flour", 150, "g")
IngEgg   == Ing("egg", 200, "units")
IngSalt  == Ing("salt", 25, "tsp")

\* Ingredient.objects.create(recipe=recipe, **ingredient_data): the field
\* defaults fill what the request left out.
IngredientRow(g) ==
    [name |-> g.name, quantity |-> g.quantity,
     unit |-> IF "unit" \in DOMAIN g THEN g.unit ELSE "units",
     type |-> IF "type" \in DOMAIN g THEN g.type ELSE "main",
     notes |-> IF "notes" \in DOMAIN g THEN g.notes ELSE ""]

\* str(Decimal) of a quantity with two decimal places: the text "I.FF",
\* held as its integer and fraction digits.
DecimalStr(q) == [int |-> q \div 100, frac |-> q % 100]

----------------------------------------------------------------------------
(* State *)

VARIABLES
    recipes,        \* table recipes_recipe: id -> row
    nextRecipeId,   \* the auto-increment primary key of recipes_recipe
    ingredients,    \* table recipes_ingredient: recipe id -> rows, insert order
    versions,       \* table recipes_recipe_version: recipe id -> rows, insert order
    ratings,        \* table recipes_rating: set of rows
    nextRatingId,   \* the auto-increment primary key of recipes_rating
    notifications,  \* table users_notification: rows, insert order
    favorites,      \* table users_favorite: set of rows
    nextFavoriteId, \* the auto-increment primary key of users_favorite
    comments,       \* table recipes_comment: set of rows
    nextCommentId,  \* the auto-increment primary key of recipes_comment
    pageCache,      \* the response that cache_page holds for GET /recipes/
    follows,        \* table users_user_follows: sequence of <<from, to>> rows
    messages,       \* table users_message: sequence of rows, the id is the index
    now,            \* the clock that timezone.now() reads
    req,            \* the requests in flight
    started         \* number of requests started so far

vars == <<recipes, nextRecipeId, ingredients, versions, ratings, nextRatingId,
          notifications, favorites, nextFavoriteId, comments, nextCommentId,
          pageCache, follows, messages, now, req, started>>

\* the tables around the recipe store
feedback == <<ratings, nextRatingId, notifications>>

\* the tables of the follow graph and of messages, and the clock
accounts == <<follows, messages, now>>

\* the tables of favorites and comments, the page cache and the accounts
social == <<favorites, nextFavoriteId, comments, nextCommentId, pageCache, accounts>>

db == <<recipes, nextRecipeId, ingredients, versions, feedback, social>>

\* no response is cached for the list URL
NoPage == [cached |-> FALSE, page |-> {}]

IdleReq ==
    [op |-> "idle", pc |-> "idle", user |-> Anonymous, rid |-> 0,
     data |-> [none |-> TRUE], inst |-> NoRecipe, pref |-> <<>>,
     hasPref |-> FALSE, vnum |-> 0, snap |-> <<>>, idx |-> 0,
     result |-> "", out |-> <<>>, summary |-> "",
     tid |-> 0, found |-> FALSE,
     saved |-> FALSE, appended |-> FALSE, alone |-> TRUE, rows |-> 0,
     readIngredients |-> FALSE, seen |-> {},
     target |-> Anonymous, msg |-> 0, loaded |-> [none |-> TRUE]]

Active(p) == req[p].pc \notin {"idle", "done"}

\* a request that has started and has not yet returned its response
InFlight(p) == req[p].pc # "idle" /\ req[p].pc # "done"

----------------------------------------------------------------------------
(* Validation: RecipeCreateUpdateSerializer.is_valid *)

ValidIngredient_anyquantity(g) ==
    /\ "name" \in DOMAIN g
    /\ g.name # ""
    /\ "quantity" \in DOMAIN g

ValidIngredient(g) ==
    /\ "name" \in DOMAIN g
    /\ g.name # ""
    /\ "quantity" \in DOMAIN g
    /\ g.quantity >= 0

ValidIngredientList(l) == \A i \in 1..Len(l) : ValidIngredient(l[i])

\* validation without validate_serving_size and the MinValueValidator
ValidRecipeData_anyserving(d, partial) ==
    /\ partial \/ {"title", "cook_time"} \subseteq DOMAIN d
    /\ "title" \in DOMAIN d => d.title # ""
    /\ "cook_time" \in DOMAIN d => d.cook_time >= 1
    /\ "ingredients_data" \in DOMAIN d => ValidIngredientList(d.ingredients_data)

ValidRecipeData(d, partial) ==
    /\ partial \/ {"title", "cook_time"} \subseteq DOMAIN d
    /\ "title" \in DOMAIN d => d.title # ""
    /\ "cook_time" \in DOMAIN d => d.cook_time >= 1
    /\ "serving_size" \in DOMAIN d => d.serving_size >= 1
    /\ "ingredients_data" \in DOMAIN d => ValidIngredientList(d.ingredients_data)

----------------------------------------------------------------------------
(* Permissions and querysets of RecipeViewSet *)

\* RecipeViewSet.get_queryset
InQueryset(u, row) ==
    /\ row.exists
    /\ \/ row.visibility = "public"
       \/ IsAuthenticated(u) /\ row.author = u

\* IsPublicOrAuthor.has_object_permission
IsPublicOrAuthor(u, row) ==
    IF row.visibility = "public" THEN TRUE
    ELSE IF IsAuthenticated(u) THEN row.author = u
    ELSE FALSE

\* CanManageRecipes.has_permission
CanManageRecipes(u, safe) ==
    IF safe THEN TRUE ELSE IsAuthenticated(u)

----------------------------------------------------------------------------
(* Database constraints *)

\* unique_together = ('recipe', 'version_number')
VersionUnique_dropped(rid, n) == TRUE

VersionUnique(rid, n) ==
    \A i \in 1..Len(versions[rid]) : versions[rid][i].version_number # n

\* a slug column without the unique constraint
SlugUnique_dropped(rid, slug) == TRUE

\* Recipe.slug is unique
SlugUnique(rid, slug) ==
    \A r \in RecipeIds : (r # rid /\ recipes[r].exists) => recipes[r].slug # slug

\* the foreign key of a child row to its recipe
RecipeExists(rid) == rid \in RecipeIds /\ recipes[rid].exists

----------------------------------------------------------------------------
(* Helpers for the request records *)

Done(p, res) ==
    req' = [req EXCEPT ![p].pc = "done", ![p].result = res]

\* the other requests that work on the same recipe are no longer alone
StartReq(p, r) ==
    /\ req[p].pc = "idle"
    /\ started < MaxRequests
    /\ started' = started + 1
    /\ UNCHANGED db
    /\ LET others == {q \in Procs : q # p /\ InFlight(q) /\ req[q].rid = r.rid /\ r.rid # 0}
       IN  req' = [q \in Procs |->
                     IF q = p THEN [r EXCEPT !.alone = (others = {})]
                     ELSE IF q \in others THEN [req[q] EXCEPT !.alone = FALSE]
                     ELSE req[q]]

----------------------------------------------------------------------------
(* Reading ingredients: Ingredient.Meta.ordering = ['type', 'name'] *)

TypeRank(t) ==
    CASE t = "garnish" -> 1 [] t = "main" -> 2 [] t = "other" -> 3
      [] t = "seasoning" -> 4 [] t = "spice" -> 5 [] OTHER -> 6

NameRank(n) ==
    CASE n = "egg" -> 1 [] n = "flour" -> 2 [] n = "salt" -> 3 [] OTHER -> 0

Before(a, b) ==
    \/ TypeRank(a.type) < TypeRank(b.type)
    \/ TypeRank(a.type) = TypeRank(b.type) /\ NameRank(a.name) < NameRank(b.name)

RECURSIVE InsertOrdered(_, _)
InsertOrdered(sorted, g) ==
    IF sorted = <<>> THEN <<g>>
    ELSE IF Before(g, Head(sorted)) THEN <<g>> \o sorted
    ELSE <<Head(sorted)>> \o InsertOrdered(Tail(sorted), g)

RECURSIVE Ordered(_)
Ordered(rows) ==
    IF rows = <<>> THEN <<>>
    ELSE InsertOrdered(Ordered(SubSeq(rows, 1, Len(rows) - 1)), rows[Len(rows)])

\* recipe.ingredients.all() evaluated against the database
QueryIngredients(rid) == Ordered(ingredients[rid])

----------------------------------------------------------------------------
(* RecipeVersion.create_version: three statements *)

\* the list comprehension that snapshots the ingredients
Snapshot(rows) ==
    [i \in 1..Len(rows) |->
        [name |-> rows[i].name, quantity |-> DecimalStr(rows[i].quantity),
         unit |-> rows[i].unit, type |-> rows[i].type, notes |-> rows[i].notes]]

RECURSIVE MaxVersionNumber(_)
MaxVersionNumber(vs) ==
    IF vs = <<>> THEN 0
    ELSE LET m == MaxVersionNumber(Tail(vs))
         IN  IF Head(vs).version_number > m THEN Head(vs).version_number ELSE m

\* numbering that starts at the stored maximum itself
NextVersionNumber_frommax(rid) == MaxVersionNumber(versions[rid])

\* last_version = ...order_by('-version_number').first(); version_number = last + 1 or 1
NextVersionNumber(rid) ==
    IF versions[rid] = <<>> THEN 1 ELSE MaxVersionNumber(versions[rid]) + 1

\* the first statement reads the last version; the snapshot is taken from the
\* prefetch cache of the instance when it has one (no statement), else by a
\* second statement
VersionRead(p) ==
    /\ req[p].pc = "ver_read"
    /\ req' = [req EXCEPT
                 ![p].vnum = NextVersionNumber(req[p].rid),
                 ![p].snap = IF req[p].hasPref THEN Snapshot(req[p].pref) ELSE <<>>,
                 ![p].pc = IF req[p].hasPref THEN "ver_insert" ELSE "ver_snap"]
    /\ UNCHANGED <<db, started>>

VersionSnap(p) ==
    /\ req[p].pc = "ver_snap"
    /\ req' = [req EXCEPT
                 ![p].snap = Snapshot(QueryIngredients(req[p].rid)),
                 ![p].pc = "ver_insert"]
    /\ UNCHANGED <<db, started>>

VersionRow(r) ==
    [version_number |-> r.vnum, title |-> r.inst.title,
     description |-> r.inst.description, instructions |-> r.inst.instructions,
     ingredients_snapshot |-> r.snap, changed_by |-> r.user,
     change_summary |-> r.summary]

\* cls.objects.create(...): the foreign key and the unique constraint decide
VersionInsert_overwrite(p) ==
    /\ req[p].pc = "ver_insert"
    /\ IF RecipeExists(req[p].rid)
       THEN /\ versions' = [versions EXCEPT ![req[p].rid] =
                               IF @ = <<>> THEN <<VersionRow(req[p])>>
                               ELSE [@ EXCEPT ![Len(@)] = VersionRow(req[p])]]
            /\ req' = [req EXCEPT ![p].pc = "done", ![p].result = "ok",
                                  ![p].appended = TRUE]
       ELSE /\ Done(p, "IntegrityError")
            /\ UNCHANGED versions
    /\ UNCHANGED <<recipes, nextRecipeId, ingredients, feedback, social, started>>

VersionInsert(p) ==
    /\ req[p].pc = "ver_insert"
    /\ IF RecipeExists(req[p].rid) /\ VersionUnique(req[p].rid, req[p].vnum)
       THEN /\ versions' = [versions EXCEPT ![req[p].rid] = Append(@, VersionRow(req[p]))]
            /\ req' = [req EXCEPT ![p].pc = "done", ![p].result = "ok",
                                  ![p].appended = TRUE]
       ELSE /\ Done(p, "IntegrityError")
            /\ UNCHANGED versions
    /\ UNCHANGED <<recipes, nextRecipeId, ingredients, feedback, social, started>>

----------------------------------------------------------------------------
(* RecipeViewSet.partial_update -> RecipeCreateUpdateSerializer.update *)

UpdateReq(u, rid, d) ==
    [IdleReq EXCEPT !.op = "update", !.pc = "load", !.user = u, !.rid = rid,
                    !.data = d, !.summary = "Recipe updated"]

StartUpdate(p, u, rid, d) == StartReq(p, UpdateReq(u, rid, d))

\* get_object (with prefetch_related('ingredients')), the permission classes
\* and is_valid; none of them writes
UpdateLoad(p) ==
    /\ req[p].op = "update" /\ req[p].pc = "load"
    /\ LET r == req[p]
           row == recipes[r.rid]
       IN  IF ~CanManageRecipes(r.user, FALSE) THEN Done(p, "NotAuthenticated")
           ELSE IF ~InQueryset(r.user, row) THEN Done(p, "NotFound")
           ELSE IF ~IsPublicOrAuthor(r.user, row) THEN Done(p, "Forbidden")
           ELSE IF ~ValidRecipeData(r.data, TRUE) THEN Done(p, "ValidationError")
           ELSE req' = [req EXCEPT ![p].inst = row,
                                   ![p].pref = QueryIngredients(r.rid),
                                   ![p].hasPref = TRUE,
                                   ![p].readIngredients = TRUE,
                                   ![p].pc = "save"]
    /\ UNCHANGED <<db, started>>

\* ingredients_data = validated_data.pop('ingredients_data', ...)
IngredientsData(d) ==
    IF "ingredients_data" \in DOMAIN d THEN d.ingredients_data ELSE <<>>

\* a full replacement: what the request leaves out is blanked
SetAttrs_replace(inst, d) ==
    [f \in DOMAIN inst |->
        IF f \in WritableFields
        THEN IF f \in DOMAIN d THEN d[f] ELSE NoRecipe[f]
        ELSE inst[f]]

\* for attr, value in validated_data.items(): setattr(instance, attr, value)
SetAttrs(inst, d) ==
    [f \in DOMAIN inst |->
        IF f \in WritableFields /\ f \in DOMAIN d THEN d[f] ELSE inst[f]]

\* Recipe.save: the slug is generated only while it is empty
WithSlug(inst) ==
    IF inst.slug = "" THEN [inst EXCEPT !.slug = slugify(inst.title)] ELSE inst

\* instance.save(): Django writes every field of the instance by primary
\* key, and inserts the row when the UPDATE matched none
UpdateSave(p) ==
    /\ req[p].op = "update" /\ req[p].pc = "save"
    /\ LET r == req[p]
           inst == WithSlug(SetAttrs(r.inst, r.data))
       IN  IF SlugUnique(r.rid, inst.slug)
           THEN /\ recipes' = [recipes EXCEPT ![r.rid] = inst]
                /\ req' = [req EXCEPT
                             ![p].inst = inst, ![p].saved = TRUE,
                             ![p].pc = IF "ingredients_data" \in DOMAIN r.data
                                       THEN "del_ing" ELSE "ver_read"]
           ELSE /\ Done(p, "IntegrityError")
                /\ UNCHANGED recipes
    /\ UNCHANGED <<nextRecipeId, ingredients, versions, feedback, social, started>>

\* instance.ingredients.all().delete()
UpdateDeleteIngredients_merge(p) ==
    /\ req[p].op = "update" /\ req[p].pc = "del_ing"
    /\ req' = [req EXCEPT ![p].idx = 1,
                          ![p].pc = IF req[p].data.ingredients_data = <<>>
                                    THEN "ver_read" ELSE "ins_ing"]
    /\ UNCHANGED <<db, started>>

UpdateDeleteIngredients(p) ==
    /\ req[p].op = "update" /\ req[p].pc = "del_ing"
    /\ ingredients' = [ingredients EXCEPT ![req[p].rid] = <<>>]
    /\ req' = [req EXCEPT ![p].idx = 1,
                          ![p].pc = IF req[p].data.ingredients_data = <<>>
                                    THEN "ver_read" ELSE "ins_ing"]
    /\ UNCHANGED <<recipes, nextRecipeId, versions, feedback, social, started>>

\* Ingredient.objects.create(recipe=..., **ingredient_data), one per step
InsertIngredient(p) ==
    /\ req[p].op \in {"update", "create"} /\ req[p].pc = "ins_ing"
    /\ LET r == req[p]
           l == IngredientsData(r.data)
       IN  IF RecipeExists(r.rid)
           THEN /\ ingredients' = [ingredients EXCEPT
                                     ![r.rid] = Append(@, IngredientRow(l[r.idx]))]
                /\ req' = [req EXCEPT ![p].idx = r.idx + 1,
                                      ![p].rows = r.rows + 1,
                                      ![p].pc = IF r.idx = Len(l) THEN "ver_read"
                                                ELSE "ins_ing"]
           ELSE /\ Done(p, "IntegrityError")
                /\ UNCHANGED ingredients
    /\ UNCHANGED <<recipes, nextRecipeId, versions, feedback, social, started>>

----------------------------------------------------------------------------
(* RecipeViewSet.create -> RecipeCreateUpdateSerializer.create *)

CreateReq(u, d) ==
    [IdleReq EXCEPT !.op = "create", !.pc = "validate", !.user = u, !.data = d,
                    !.summary = "Initial version"]

\* every create in flight will need a primary key
StartCreate(p, u, d) ==
    /\ nextRecipeId + Cardinality({q \in Procs : req[q].op = "create" /\ InFlight(q)
                                                  /\ req[q].rid = 0}) <= MaxRecipes
    /\ StartReq(p, CreateReq(u, d))

\* the permission classes and is_valid(raise_exception=True); nothing is
\* written before create() is called
CreateValidate(p) ==
    /\ req[p].op = "create" /\ req[p].pc = "validate"
    /\ IF ~CanManageRecipes(req[p].user, FALSE) THEN Done(p, "NotAuthenticated")
       ELSE IF ~ValidRecipeData(req[p].data, FALSE) THEN Done(p, "ValidationError")
       ELSE req' = [req EXCEPT ![p].pc = "insert"]
    /\ UNCHANGED <<db, started>>

\* Recipe(author=user, **validated_data) with the model's field defaults
NewRecipe(u, d) ==
    [exists |-> TRUE,
     title |-> d.title,
     description |-> IF "description" \in DOMAIN d THEN d.description ELSE "",
     instructions |-> IF "instructions" \in DOMAIN d THEN d.instructions ELSE "",
     serving_size |-> IF "serving_size" \in DOMAIN d THEN d.serving_size
                      ELSE DefaultServingSize,
     cook_time |-> d.cook_time,
     visibility |-> IF "visibility" \in DOMAIN d THEN d.visibility
                    ELSE DefaultVisibility,
     author |-> u, slug |-> "", average_rating |-> <<0, 1>>,
     total_ratings |-> 0, view_count |-> 0]

\* recipe = Recipe.objects.create(author=user, **validated_data)
CreateInsert(p) ==
    /\ req[p].op = "create" /\ req[p].pc = "insert"
    /\ LET r == req[p]
           inst == WithSlug(NewRecipe(r.user, r.data))
           id == nextRecipeId
       IN  IF SlugUnique(id, inst.slug)
           THEN /\ recipes' = [recipes EXCEPT ![id] = inst]
                /\ nextRecipeId' = id + 1
                /\ req' = [req EXCEPT
                             ![p].rid = id, ![p].inst = inst, ![p].saved = TRUE,
                             ![p].idx = 1,
                             ![p].pc = IF IngredientsData(r.data) = <<>>
                                       THEN "ver_read" ELSE "ins_ing"]
           ELSE /\ Done(p, "IntegrityError")
                /\ UNCHANGED <<recipes, nextRecipeId>>
    /\ UNCHANGED <<ingredients, versions, feedback, social, started>>

----------------------------------------------------------------------------
(* Ratings: RatingViewSet, RatingSerializer and Recipe.update_rating *)

\* CanRateRecipe.has_permission
CanRateRecipe(u) == IsAuthenticated(u)

\* RatingSerializer.validate_rating and the validators of Rating.rating
ValidRating(v) == 1 <= v /\ v <= 5

RatingsOf(rid) == {t \in ratings : t.recipe = rid}

RECURSIVE SumRatings(_)
SumRatings(ts) ==
    IF ts = {} THEN 0
    ELSE LET t == CHOOSE x \in ts : TRUE
         IN  t.rating + SumRatings(ts \ {t})

RECURSIVE Gcd(_, _)
Gcd(a, b) == IF b = 0 THEN a ELSE Gcd(b, a % b)

\* a float that is the quotient sum / count, held as the fraction in lowest
\* terms; 0.0 is <<0, 1>>
Quotient(sum, count) ==
    IF count = 0 \/ sum = 0 THEN <<0, 1>>
    ELSE <<sum \div Gcd(sum, count), count \div Gcd(sum, count)>>

\* ratings.aggregate(models.Avg('rating'))['rating__avg'] or 0.0
AvgRating(ts) == Quotient(SumRatings(ts), Cardinality(ts))

RateReq(u, rid, v) ==
    [IdleReq EXCEPT !.op = "rate", !.pc = "rate_load", !.user = u, !.rid = rid,
                    !.data = [rating |-> v]]

StartRate(p, u, rid, v) == StartReq(p, RateReq(u, rid, v))

\* the permission class, is_valid, and get_object_or_404(Recipe, id=recipe_id)
RateLoad(p) ==
    /\ req[p].op = "rate" /\ req[p].pc = "rate_load"
    /\ LET r == req[p]
       IN  IF ~CanRateRecipe(r.user) THEN Done(p, "NotAuthenticated")
           ELSE IF ~ValidRating(r.data.rating) THEN Done(p, "ValidationError")
           ELSE IF ~RecipeExists(r.rid) THEN Done(p, "NotFound")
           ELSE req' = [req EXCEPT ![p].inst = recipes[r.rid], ![p].pc = "rate_upsert"]
    /\ UNCHANGED <<db, started>>

\* unique_together = ('user', 'recipe')
RatingUnique(u, rid) == \A t \in ratings : ~(t.user = u /\ t.recipe = rid)

\* Rating.objects.update_or_create(user=user, recipe_id=recipe_id, defaults=...):
\* one atomic block that updates the row of this user and recipe or inserts it
RateUpsert_insert(p) ==
    /\ req[p].op = "rate" /\ req[p].pc = "rate_upsert"
    /\ LET r == req[p]
       IN  /\ ratings' = ratings \cup
                  {[id |-> nextRatingId, user |-> r.user, recipe |-> r.rid,
                    rating |-> r.data.rating, is_spam |-> FALSE]}
           /\ nextRatingId' = nextRatingId + 1
           /\ req' = [req EXCEPT ![p].tid = nextRatingId, ![p].saved = TRUE,
                                 ![p].found = TRUE, ![p].pc = "rate_exists"]
    /\ UNCHANGED <<recipes, nextRecipeId, ingredients, versions, notifications, social, started>>

RateUpsert(p) ==
    /\ req[p].op = "rate" /\ req[p].pc = "rate_upsert"
    /\ LET r == req[p]
           mine == {t \in ratings : t.user = r.user /\ t.recipe = r.rid}
       IN  IF mine # {}
           THEN LET t == CHOOSE x \in mine : TRUE
                IN  /\ ratings' = (ratings \ {t}) \cup {[t EXCEPT !.rating = r.data.rating]}
                    /\ req' = [req EXCEPT ![p].tid = t.id, ![p].saved = TRUE,
                                          ![p].pc = "rate_exists"]
                    /\ UNCHANGED nextRatingId
           ELSE IF RecipeExists(r.rid)
           THEN /\ ratings' = ratings \cup
                       {[id |-> nextRatingId, user |-> r.user, recipe |-> r.rid,
                         rating |-> r.data.rating, is_spam |-> FALSE]}
                /\ nextRatingId' = nextRatingId + 1
                /\ req' = [req EXCEPT ![p].tid = nextRatingId, ![p].saved = TRUE,
                                      ![p].found = TRUE, ![p].pc = "rate_exists"]
           ELSE /\ Done(p, "IntegrityError")
                /\ UNCHANGED <<ratings, nextRatingId>>
    /\ UNCHANGED <<recipes, nextRecipeId, ingredients, versions, notifications, social, started>>

\* Recipe.update_rating, first statement: ratings.exists()
RateExists(p) ==
    /\ req[p].op = "rate" /\ req[p].pc = "rate_exists"
    /\ req' = IF RatingsOf(req[p].rid) # {}
              THEN [req EXCEPT ![p].pc = "rate_avg"]
              ELSE [req EXCEPT ![p].inst.average_rating = <<0, 1>>,
                               ![p].inst.total_ratings = 0,
                               ![p].pc = "rate_save"]
    /\ UNCHANGED <<db, started>>

\* second statement: the aggregate over all ratings of the recipe
RateAvg(p) ==
    /\ req[p].op = "rate" /\ req[p].pc = "rate_avg"
    /\ req' = [req EXCEPT ![p].inst.average_rating = AvgRating(RatingsOf(req[p].rid)),
                          ![p].pc = "rate_count"]
    /\ UNCHANGED <<db, started>>

\* third statement: ratings.count()
RateCount(p) ==
    /\ req[p].op = "rate" /\ req[p].pc = "rate_count"
    /\ req' = [req EXCEPT ![p].inst.total_ratings = Cardinality(RatingsOf(req[p].rid)),
                          ![p].pc = "rate_save"]
    /\ UNCHANGED <<db, started>>

\* self.save(update_fields=['average_rating', 'total_ratings']): an UPDATE
\* of the two columns, a DatabaseError when the row is gone
RateSave(p) ==
    /\ req[p].op = "rate" /\ req[p].pc = "rate_save"
    /\ LET r == req[p]
       IN  IF RecipeExists(r.rid)
           THEN /\ recipes' = [recipes EXCEPT
                                 ![r.rid].average_rating = r.inst.average_rating,
                                 ![r.rid].total_ratings = r.inst.total_ratings]
                /\ req' = [req EXCEPT ![p].pc = IF r.inst.author # r.user
                                                THEN "rate_notify" ELSE "done",
                                      ![p].result = IF r.inst.author # r.user
                                                    THEN "" ELSE "ok"]
           ELSE /\ Done(p, "DatabaseError")
                /\ UNCHANGED recipes
    /\ UNCHANGED <<nextRecipeId, ingredients, versions, feedback, social, started>>

\* Recipe.author is a nullable foreign key: a recipe without an author
NoAuthor == ""

\* Notification.create_notification -> cls.objects.create(user=user, ...):
\* Notification.user is a foreign key that is not nullable, so the insert is
\* refused when the recipe has no author; the caller does not catch the error
Notify(p, type) ==
    IF req[p].inst.author \in Users
    THEN /\ notifications' = Append(notifications,
                                    [user |-> req[p].inst.author,
                                     notification_type |-> type,
                                     actor |-> req[p].user, object_id |-> req[p].tid])
         /\ Done(p, "ok")
    ELSE /\ Done(p, "IntegrityError")
         /\ UNCHANGED notifications

\* RatingViewSet.perform_create: if recipe.author != self.request.user
RateNotify(p) ==
    /\ req[p].op = "rate" /\ req[p].pc = "rate_notify"
    /\ Notify(p, "like")
    /\ UNCHANGED <<recipes, nextRecipeId, ingredients, versions, ratings,
                   nextRatingId, social, started>>

----------------------------------------------------------------------------
(* Comments: CommentViewSet.create and CommentSerializer *)

\* str.strip on the contents the model uses
strip(value) ==
    CASE value = " nice " -> "nice"
      [] value = "  "     -> ""
      [] OTHER            -> value

\* CommentSerializer.validate_content
ValidComment(value) == value # "" /\ strip(value) # ""

\* CanCommentOrReadOnly.has_permission for POST
CanCommentOrReadOnly(u) == IsAuthenticated(u)

CommentReq(u, rid, content) ==
    [IdleReq EXCEPT !.op = "comment", !.pc = "comment_load", !.user = u, !.rid = rid,
                    !.data = [content |-> content]]

StartComment(p, u, rid, content) == StartReq(p, CommentReq(u, rid, content))

\* the permission class, is_valid, and get_object_or_404(Recipe, id=recipe_id)
CommentLoad(p) ==
    /\ req[p].op = "comment" /\ req[p].pc = "comment_load"
    /\ LET r == req[p]
       IN  IF ~CanCommentOrReadOnly(r.user) THEN Done(p, "NotAuthenticated")
           ELSE IF ~ValidComment(r.data.content) THEN Done(p, "ValidationError")
           ELSE IF ~RecipeExists(r.rid) THEN Done(p, "NotFound")
           ELSE req' = [req EXCEPT ![p].inst = recipes[r.rid], ![p].pc = "comment_insert"]
    /\ UNCHANGED <<db, started>>

\* serializer.save(recipe=recipe): the INSERT of the Comment row; the foreign
\* key to the recipe decides
CommentInsert(p) ==
    /\ req[p].op = "comment" /\ req[p].pc = "comment_insert"
    /\ LET r == req[p]
       IN  IF RecipeExists(r.rid)
           THEN /\ comments' = comments \cup
                       {[id |-> nextCommentId, user |-> r.user, recipe |-> r.rid,
                         content |-> strip(r.data.content), is_approved |-> TRUE]}
                /\ nextCommentId' = nextCommentId + 1
                /\ req' = [req EXCEPT ![p].tid = nextCommentId, ![p].saved = TRUE,
                                      ![p].pc = IF r.inst.author # r.user
                                                THEN "comment_notify" ELSE "done",
                                      ![p].result = IF r.inst.author # r.user
                                                    THEN "" ELSE "ok"]
           ELSE /\ Done(p, "IntegrityError")
                /\ UNCHANGED <<comments, nextCommentId>>
    /\ UNCHANGED <<recipes, nextRecipeId, ingredients, versions, feedback,
                   favorites, nextFavoriteId, pageCache, accounts, started>>

\* CommentViewSet.perform_create: if recipe.author != self.request.user
CommentNotify(p) ==
    /\ req[p].op = "comment" /\ req[p].pc = "comment_notify"
    /\ Notify(p, "comment")
    /\ UNCHANGED <<recipes, nextRecipeId, ingredients, versions, ratings,
                   nextRatingId, social, started>>

\* PUT/PATCH recipes/<recipe_id>/ratings/<pk>/: get_object on the ratings of
\* the recipe, the permission class and is_valid
RateUpdateReq(u, rid, pk, v) ==
    [IdleReq EXCEPT !.op = "rate_update", !.pc = "load", !.user = u, !.rid = rid,
                    !.tid = pk, !.data = [rating |-> v]]

StartRateUpdate(p, u, rid, pk, v) == StartReq(p, RateUpdateReq(u, rid, pk, v))

RateDeleteReq(u, rid, pk) ==
    [IdleReq EXCEPT !.op = "rate_delete", !.pc = "load", !.user = u, !.rid = rid,
                    !.tid = pk]

StartRateDelete(p, u, rid, pk) == StartReq(p, RateDeleteReq(u, rid, pk))

RatingLoad(p) ==
    /\ req[p].op \in {"rate_update", "rate_delete"} /\ req[p].pc = "load"
    /\ LET r == req[p]
           found == {t \in RatingsOf(r.rid) : t.id = r.tid}
       IN  IF ~CanRateRecipe(r.user) THEN Done(p, "NotAuthenticated")
           ELSE IF found = {} THEN Done(p, "NotFound")
           ELSE IF r.op = "rate_update" /\ ~ValidRating(r.data.rating)
                THEN Done(p, "ValidationError")
           ELSE req' = [req EXCEPT ![p].found = TRUE, ![p].pc = "write"]
    /\ UNCHANGED <<db, started>>

\* ModelSerializer.update: instance.rating = value; instance.save().  The
\* recipe's aggregate is not recomputed.
RateUpdateSave(p) ==
    /\ req[p].op = "rate_update" /\ req[p].pc = "write"
    /\ LET r == req[p]
           found == {t \in ratings : t.id = r.tid}
       IN  IF found # {}
           THEN LET t == CHOOSE x \in found : TRUE
                IN  /\ ratings' = (ratings \ {t}) \cup {[t EXCEPT !.rating = r.data.rating]}
                    /\ req' = [req EXCEPT ![p].pc = "done", ![p].result = "ok",
                                          ![p].saved = TRUE]
           ELSE /\ Done(p, "DatabaseError")
                /\ UNCHANGED ratings
    /\ UNCHANGED <<recipes, nextRecipeId, ingredients, versions, nextRatingId,
                   notifications, social, started>>

\* DestroyModelMixin.perform_destroy: instance.delete().  The recipe's
\* aggregate is not recomputed.
RateDeleteRow(p) ==
    /\ req[p].op = "rate_delete" /\ req[p].pc = "write"
    /\ ratings' = {t \in ratings : t.id # req[p].tid}
    /\ req' = [req EXCEPT ![p].pc = "done", ![p].result = "ok", ![p].saved = TRUE]
    /\ UNCHANGED <<recipes, nextRecipeId, ingredients, versions, nextRatingId,
                   notifications, social, started>>

\* RatingAdmin: the moderation fieldset sets is_spam on a rating; the moderator
\* works between the requests
AdminFlagSpam(pk) ==
    /\ \A p \in Procs : ~InFlight(p)
    /\ \E t \in ratings :
         /\ t.id = pk /\ ~t.is_spam
         /\ ratings' = (ratings \ {t}) \cup {[t EXCEPT !.is_spam = TRUE]}
    /\ UNCHANGED <<recipes, nextRecipeId, ingredients, versions, nextRatingId,
                   notifications, req, social, started>>

----------------------------------------------------------------------------
(* RecipeViewSet.destroy *)

DeleteReq(u, rid) ==
    [IdleReq EXCEPT !.op = "delete", !.pc = "load", !.user = u, !.rid = rid]

StartDelete(p, u, rid) == StartReq(p, DeleteReq(u, rid))

\* get_object and the permission classes
DeleteLoad(p) ==
    /\ req[p].op = "delete" /\ req[p].pc = "load"
    /\ LET r == req[p]
           row == recipes[r.rid]
       IN  IF ~CanManageRecipes(r.user, FALSE) THEN Done(p, "NotAuthenticated")
           ELSE IF ~InQueryset(r.user, row) THEN Done(p, "NotFound")
           ELSE IF ~IsPublicOrAuthor(r.user, row) THEN Done(p, "Forbidden")
           ELSE req' = [req EXCEPT ![p].inst = row, ![p].readIngredients = TRUE,
                                   ![p].pc = "write"]
    /\ UNCHANGED <<db, started>>

\* a delete that removes the recipe with its ingredients and versions only
DeleteCascade_recipeonly(p) ==
    /\ req[p].op = "delete" /\ req[p].pc = "write"
    /\ LET rid == req[p].rid
       IN  /\ recipes' = [recipes EXCEPT ![rid] = NoRecipe]
           /\ ingredients' = [ingredients EXCEPT ![rid] = <<>>]
           /\ versions' = [versions EXCEPT ![rid] = <<>>]
    /\ req' = [req EXCEPT ![p].pc = "done", ![p].result = "ok", ![p].saved = TRUE]
    /\ UNCHANGED <<nextRecipeId, feedback, social, started>>

\* instance.delete(): the collector removes the rows that reference the
\* recipe (on_delete=CASCADE) and the recipe in one atomic block
DeleteCascade(p) ==
    /\ req[p].op = "delete" /\ req[p].pc = "write"
    /\ LET rid == req[p].rid
       IN  /\ recipes' = [recipes EXCEPT ![rid] = NoRecipe]
           /\ ingredients' = [ingredients EXCEPT ![rid] = <<>>]
           /\ versions' = [versions EXCEPT ![rid] = <<>>]
           /\ ratings' = {t \in ratings : t.recipe # rid}
           /\ comments' = {t \in comments : t.recipe # rid}
           /\ favorites' = {t \in favorites : t.recipe # rid}
    /\ req' = [req EXCEPT ![p].pc = "done", ![p].result = "ok", ![p].saved = TRUE]
    /\ UNCHANGED <<nextRecipeId, nextRatingId, notifications, nextFavoriteId,
                   nextCommentId, pageCache, accounts, started>>

----------------------------------------------------------------------------
(* Decimal and float arithmetic of Recipe.get_ingredients_scaled.
   A Decimal is a coefficient, held as its decimal digits with the most
   significant first, and an exponent: coef * 10^exp.  A float is an integer
   part and the bits after the binary point: int + sum of bits[i] * 2^-i. *)

\* the precision of the default decimal context
DecimalPrec == 28

\* the significand width of a Python float
FloatBits == 53

RECURSIVE Digits(_)
Digits(k) == IF k < 10 THEN <<k>> ELSE Append(Digits(k \div 10), k % 10)

RECURSIVE ToInt(_)
ToInt(ds) ==
    IF ds = <<>> THEN 0
    ELSE 10 * ToInt(SubSeq(ds, 1, Len(ds) - 1)) + ds[Len(ds)]

RECURSIVE Strip(_)
Strip(ds) == IF Len(ds) > 1 /\ Head(ds) = 0 THEN Strip(Tail(ds)) ELSE ds

RECURSIVE StripTrailing(_)
StripTrailing(bs) ==
    IF bs # <<>> /\ bs[Len(bs)] = 0 THEN StripTrailing(SubSeq(bs, 1, Len(bs) - 1))
    ELSE bs

Zeros(k) == [i \in 1..k |-> 0]

\* the number of significant digits of a digit string
SigLen(ds) == IF Strip(ds) = <<0>> \/ ds = <<>> THEN 0 ELSE Len(Strip(ds))

\* ds + 1 in the given base
RECURSIVE Incr(_, _)
Incr(ds, base) ==
    IF ds = <<>> THEN <<1>>
    ELSE LET last == ds[Len(ds)]
             init == SubSeq(ds, 1, Len(ds) - 1)
         IN  IF last < base - 1 THEN Append(init, last + 1)
             ELSE Append(Incr(init, base), 0)

\* ds * k + carry
RECURSIVE MulSmall(_, _, _)
MulSmall(ds, k, carry) ==
    IF ds = <<>> THEN (IF carry = 0 THEN <<>> ELSE Digits(carry))
    ELSE LET t == ds[Len(ds)] * k + carry
         IN  Append(MulSmall(SubSeq(ds, 1, Len(ds) - 1), k, t \div 10), t % 10)

\* ROUND_HALF_EVEN to DecimalPrec digits; rest says that nonzero digits
\* follow the coefficient
DecimalRound(coef, exp, rest) ==
    LET c == Strip(coef)
    IN  IF Len(c) <= DecimalPrec THEN [coef |-> c, exp |-> exp]
        ELSE LET kept == SubSeq(c, 1, DecimalPrec)
                 dropped == SubSeq(c, DecimalPrec + 1, Len(c))
                 more == rest \/ SigLen(Tail(dropped)) > 0
                 up == \/ Head(dropped) > 5
                       \/ Head(dropped) = 5 /\ more
                       \/ Head(dropped) = 5 /\ kept[DecimalPrec] % 2 = 1
                 r == IF up THEN Incr(kept, 10) ELSE kept
             IN  IF Len(r) > DecimalPrec
                 THEN [coef |-> SubSeq(r, 1, DecimalPrec), exp |-> exp + Len(dropped) + 1]
                 ELSE [coef |-> r, exp |-> exp + Len(dropped)]

\* long division, one digit a step, until it ends or one digit more than
\* the precision is known
RECURSIVE DivideDigits(_, _, _, _)
DivideDigits(coef, exp, r, s) ==
    IF r = 0 \/ SigLen(coef) > DecimalPrec
    THEN DecimalRound(coef, exp, r # 0)
    ELSE DivideDigits(Append(coef, (10 * r) \div s), exp - 1, (10 * r) % s, s)

\* Decimal(n) / Decimal(s)
DecimalDivide(n, s) == DivideDigits(Digits(n \div s), 0, n % s, s)

\* quantity * d, the quantity a DecimalField with two places held in
\* hundredths
DecimalMultiply(quantity, d) ==
    DecimalRound(MulSmall(d.coef, quantity, 0), d.exp - 2, FALSE)

\* the significant bits of int + 0.bits
RECURSIVE BitLen(_)
BitLen(k) == IF k = 0 THEN 0 ELSE 1 + BitLen(k \div 2)

RECURSIVE LeadingZeros(_)
LeadingZeros(bs) ==
    IF bs # <<>> /\ Head(bs) = 0 THEN 1 + LeadingZeros(Tail(bs)) ELSE 0

SigBits(int, bits) ==
    IF int > 0 THEN BitLen(int) + Len(bits) ELSE Len(bits) - LeadingZeros(bits)

\* rounding to FloatBits significant bits; the last bit of bits is the guard
\* bit when there are more than FloatBits.  A float conversion rounds to
\* nearest, ties to even; the directed modes give the neighbours of a value.
RoundsUp(mode, guard, rest, odd) ==
    CASE mode = "nearest" -> guard = 1 /\ (rest \/ odd)
      [] mode = "ceiling" -> guard = 1 \/ rest
      [] mode = "floor"   -> FALSE

FloatRound(int, bits, rest, mode) ==
    IF SigBits(int, bits) <= FloatBits
    THEN [int |-> int, bits |-> StripTrailing(bits)]
    ELSE LET kept == SubSeq(bits, 1, Len(bits) - 1)
             odd == IF kept = <<>> THEN int % 2 = 1 ELSE kept[Len(kept)] = 1
             guard == bits[Len(bits)]
             r == Incr(kept, 2)
         IN  IF ~RoundsUp(mode, guard, rest, odd)
             THEN [int |-> int, bits |-> StripTrailing(kept)]
             ELSE IF Len(r) > Len(kept) THEN [int |-> int + 1, bits |-> StripTrailing(Tail(r))]
             ELSE [int |-> int, bits |-> StripTrailing(r)]

\* the digits of 2 * 0.frac after the point: a digit receives a carry when
\* the digit to its right is 5 or more
Double(frac) ==
    [i \in 1..Len(frac) |->
        (2 * frac[i] + (IF i < Len(frac) /\ frac[i + 1] >= 5 THEN 1 ELSE 0)) % 10]

\* the binary expansion of 0.frac, frac a string of decimal digits
RECURSIVE BinaryOfDecimal(_, _, _)
BinaryOfDecimal(int, bits, frac) ==
    IF SigLen(frac) = 0 \/ SigBits(int, bits) > FloatBits
    THEN FloatRound(int, bits, SigLen(frac) > 0, "nearest")
    ELSE BinaryOfDecimal(int, Append(bits, IF Head(frac) >= 5 THEN 1 ELSE 0),
                         Double(frac))

\* float(d): the double nearest to the decimal
float(d) ==
    LET c == IF d.exp > 0 THEN d.coef \o Zeros(d.exp) ELSE d.coef
        k == IF d.exp > 0 THEN 0 ELSE 0 - d.exp
        whole == IF Len(c) > k THEN SubSeq(c, 1, Len(c) - k) ELSE <<0>>
        frac == IF Len(c) > k THEN SubSeq(c, Len(c) - k + 1, Len(c))
                ELSE Zeros(k - Len(c)) \o c
    IN  BinaryOfDecimal(ToInt(whole), <<>>, frac)

----------------------------------------------------------------------------
(* Recipe.get_ingredients_scaled and RecipeViewSet.scale_ingredients *)

\* scale_factor = Decimal(new_serving_size) / Decimal(self.serving_size)
ScaleFactor_floordiv(n, s) == [coef |-> Digits(n \div s), exp |-> 0]

ScaleFactor(n, s) == DecimalDivide(n, s)

\* the loop over self.get_ingredients()
ScaledIngredients(rows, n, s) ==
    [i \in 1..Len(rows) |->
        [name |-> rows[i].name,
         quantity |-> float(DecimalMultiply(rows[i].quantity, ScaleFactor(n, s))),
         unit |-> rows[i].unit,
         type |-> rows[i].type]]

\* a call of the method on a recipe instance
ScaleReq(rid, n) ==
    [IdleReq EXCEPT !.op = "scale", !.pc = "guard", !.rid = rid,
                    !.inst = recipes[rid], !.data = [new_serving_size |-> n]]

StartScale(p, rid, n) ==
    /\ RecipeExists(rid)
    /\ StartReq(p, ScaleReq(rid, n))

\* if new_serving_size <= 0: raise ValueError
ScaleGuard(p) ==
    /\ req[p].op = "scale" /\ req[p].pc = "guard"
    /\ IF req[p].data.new_serving_size <= 0 THEN Done(p, "ValueError")
       ELSE req' = [req EXCEPT ![p].pc = "read"]
    /\ UNCHANGED <<db, started>>

\* Decimal(new_serving_size) / Decimal(self.serving_size) raises
\* decimal.DivisionByZero for a divisor 0; the queryset is evaluated once, by
\* the for statement
ScaleRead(p) ==
    /\ req[p].op = "scale" /\ req[p].pc = "read"
    /\ LET r == req[p]
           rows == IF r.hasPref THEN r.pref ELSE QueryIngredients(r.rid)
       IN  IF r.inst.serving_size = 0
           THEN Done(p, "ZeroDivisionError")
           ELSE req' = [req EXCEPT
                          ![p].out = ScaledIngredients(rows, r.data.new_serving_size,
                                                       r.inst.serving_size),
                          ![p].readIngredients = TRUE,
                          ![p].pc = "done", ![p].result = "ok"]
    /\ UNCHANGED <<db, started>>

\* POST /recipes/<id>/scale_ingredients/
ScaleEndpointReq(u, rid, n) ==
    [IdleReq EXCEPT !.op = "scale_endpoint", !.pc = "load", !.user = u, !.rid = rid,
                    !.data = [new_serving_size |-> n]]

StartScaleEndpoint(p, u, rid, n) == StartReq(p, ScaleEndpointReq(u, rid, n))

\* get_object and the permission classes; the queryset prefetches the
\* ingredients
ScaleLoad_counting(p) ==
    /\ req[p].op = "scale_endpoint" /\ req[p].pc = "load"
    /\ LET r == req[p]
           row == recipes[r.rid]
       IN  IF ~CanManageRecipes(r.user, FALSE)
           THEN Done(p, "NotAuthenticated") /\ UNCHANGED recipes
           ELSE IF ~InQueryset(r.user, row) THEN Done(p, "NotFound") /\ UNCHANGED recipes
           ELSE IF ~IsPublicOrAuthor(r.user, row)
           THEN Done(p, "Forbidden") /\ UNCHANGED recipes
           ELSE /\ req' = [req EXCEPT ![p].inst = row,
                                      ![p].pref = QueryIngredients(r.rid),
                                      ![p].hasPref = TRUE,
                                      ![p].readIngredients = TRUE,
                                      ![p].pc = "validate"]
                /\ recipes' = [recipes EXCEPT ![r.rid].view_count = @ + 1]
    /\ UNCHANGED <<nextRecipeId, ingredients, versions, feedback, social, started>>

ScaleLoad(p) ==
    /\ req[p].op = "scale_endpoint" /\ req[p].pc = "load"
    /\ LET r == req[p]
           row == recipes[r.rid]
       IN  IF ~CanManageRecipes(r.user, FALSE) THEN Done(p, "NotAuthenticated")
           ELSE IF ~InQueryset(r.user, row) THEN Done(p, "NotFound")
           ELSE IF ~IsPublicOrAuthor(r.user, row) THEN Done(p, "Forbidden")
           ELSE req' = [req EXCEPT ![p].inst = row,
                                   ![p].pref = QueryIngredients(r.rid),
                                   ![p].hasPref = TRUE,
                                   ![p].readIngredients = TRUE,
                                   ![p].pc = "validate"]
    /\ UNCHANGED <<db, started>>

\* RecipeScalePreviewSerializer(request.data, context=...) binds the body to
\* the instance argument, and is_valid() asserts that data= was passed
ScaleValidate(p) ==
    /\ req[p].op = "scale_endpoint" /\ req[p].pc = "validate"
    /\ Done(p, "AssertionError")
    /\ UNCHANGED <<db, started>>

----------------------------------------------------------------------------
(* Reads: RecipeViewSet.retrieve, list, stats, versions and
   RecipeVersionViewSet.list *)

\* get_object and the permission classes for a GET on one recipe
ReadLoad(p, next) ==
    LET r == req[p]
        row == recipes[r.rid]
    IN  IF ~CanManageRecipes(r.user, TRUE) THEN Done(p, "NotAuthenticated")
        ELSE IF ~InQueryset(r.user, row) THEN Done(p, "NotFound")
        ELSE IF ~IsPublicOrAuthor(r.user, row) THEN Done(p, "Forbidden")
        ELSE req' = [req EXCEPT ![p].inst = row, ![p].pc = next]

\* the response carries data of the recipes in ids
Respond(p, ids) ==
    req' = [req EXCEPT ![p].seen = ids, ![p].pc = "done", ![p].result = "ok"]

RetrieveReq(u, rid) ==
    [IdleReq EXCEPT !.op = "retrieve", !.pc = "load", !.user = u, !.rid = rid]

StartRetrieve(p, u, rid) == StartReq(p, RetrieveReq(u, rid))

RetrieveLoad(p) ==
    /\ req[p].op = "retrieve" /\ req[p].pc = "load"
    /\ ReadLoad(p, "count")
    /\ UNCHANGED <<db, started>>

\* a view count kept as one UPDATE ... SET view_count = view_count + 1
RetrieveCount_atomic(p) ==
    /\ req[p].op = "retrieve" /\ req[p].pc = "count"
    /\ LET r == req[p]
       IN  IF r.inst.visibility # "public"
           THEN Respond(p, {r.rid}) /\ UNCHANGED recipes
           ELSE IF ~RecipeExists(r.rid)
           THEN Done(p, "DatabaseError") /\ UNCHANGED recipes
           ELSE /\ recipes' = [recipes EXCEPT ![r.rid].view_count = @ + 1]
                /\ Respond(p, {r.rid})
    /\ UNCHANGED <<nextRecipeId, ingredients, versions, feedback, social, started>>

\* if recipe.visibility == 'public': recipe.increment_view_count(), which
\* adds 1 to the view_count of the loaded instance and writes that column
\* (save(update_fields=['view_count'])); then the response
RetrieveCount(p) ==
    /\ req[p].op = "retrieve" /\ req[p].pc = "count"
    /\ LET r == req[p]
       IN  IF r.inst.visibility # "public"
           THEN Respond(p, {r.rid}) /\ UNCHANGED recipes
           ELSE IF ~RecipeExists(r.rid)
           THEN Done(p, "DatabaseError") /\ UNCHANGED recipes
           ELSE /\ recipes' = [recipes EXCEPT
                                 ![r.rid].view_count = r.inst.view_count + 1]
                /\ Respond(p, {r.rid})
    /\ UNCHANGED <<nextRecipeId, ingredients, versions, feedback, social, started>>

ListReq(u) == [IdleReq EXCEPT !.op = "list", !.pc = "list", !.user = u]

StartList(p, u) == StartReq(p, ListReq(u))

\* @method_decorator(cache_page(300)) on list: a response cached for the URL
\* is returned as it is; otherwise the queryset of the requesting user is
\* listed and the response is cached. The cache key is built from the URL
\* and the headers named in Vary, and Authorization is not among them.
ListPage(p) ==
    /\ req[p].op = "list" /\ req[p].pc = "list"
    /\ IF pageCache.cached
       THEN Respond(p, pageCache.page) /\ UNCHANGED pageCache
       ELSE LET ids == {r \in RecipeIds : InQueryset(req[p].user, recipes[r])}
            IN  /\ pageCache' = [cached |-> TRUE, page |-> ids]
                /\ Respond(p, ids)
    /\ UNCHANGED <<recipes, nextRecipeId, ingredients, versions, feedback,
                   favorites, nextFavoriteId, comments, nextCommentId, accounts, started>>

\* the cached response times out after 300 seconds
CacheExpire ==
    /\ pageCache.cached
    /\ pageCache' = NoPage
    /\ UNCHANGED <<recipes, nextRecipeId, ingredients, versions, feedback,
                   favorites, nextFavoriteId, comments, nextCommentId, accounts, req, started>>

StatsReq(u, rid) ==
    [IdleReq EXCEPT !.op = "stats", !.pc = "load", !.user = u, !.rid = rid]

StartStats(p, u, rid) == StartReq(p, StatsReq(u, rid))

\* RecipeViewSet.stats: get_object and the counters of the loaded recipe
StatsLoad(p) ==
    /\ req[p].op = "stats" /\ req[p].pc = "load"
    /\ ReadLoad(p, "respond")
    /\ UNCHANGED <<db, started>>

VersionsReq(u, rid) ==
    [IdleReq EXCEPT !.op = "versions", !.pc = "load", !.user = u, !.rid = rid]

StartVersions(p, u, rid) == StartReq(p, VersionsReq(u, rid))

\* RecipeViewSet.versions: get_object, then recipe.versions.all()
VersionsLoad(p) ==
    /\ req[p].op = "versions" /\ req[p].pc = "load"
    /\ ReadLoad(p, "respond")
    /\ UNCHANGED <<db, started>>

\* the response of stats and of versions
ReadRespond(p) ==
    /\ req[p].op \in {"stats", "versions"} /\ req[p].pc = "respond"
    /\ IF req[p].op = "versions"
       THEN req' = [req EXCEPT ![p].out = versions[req[p].rid],
                               ![p].seen = IF versions[req[p].rid] = <<>> THEN {}
                                           ELSE {req[p].rid},
                               ![p].pc = "done", ![p].result = "ok"]
       ELSE Respond(p, {req[p].rid})
    /\ UNCHANGED <<db, started>>

VersionListReq(u, rid) ==
    [IdleReq EXCEPT !.op = "version_list", !.pc = "load", !.user = u, !.rid = rid]

StartVersionList(p, u, rid) == StartReq(p, VersionListReq(u, rid))

\* RecipeVersionViewSet.get_queryset: get_object_or_404, none() for a recipe
\* that is not public and not the user's, else the versions of the recipe
VersionListLoad(p) ==
    /\ req[p].op = "version_list" /\ req[p].pc = "load"
    /\ LET r == req[p]
           row == recipes[r.rid]
       IN  IF ~row.exists THEN Done(p, "NotFound")
           ELSE IF row.visibility # "public" /\ row.author # r.user
           THEN Respond(p, {})
           ELSE req' = [req EXCEPT ![p].out = versions[r.rid],
                                   ![p].seen = IF versions[r.rid] = <<>> THEN {}
                                               ELSE {r.rid},
                                   ![p].pc = "done", ![p].result = "ok"]
    /\ UNCHANGED <<db, started>>

----------------------------------------------------------------------------
(* RecipeViewSet.publish *)

\* IsRecipeAuthorOrReadOnly.has_object_permission; no user of the model is
\* staff
IsRecipeAuthorOrReadOnly(u, row, safe) ==
    IF safe THEN TRUE ELSE row.author = u

PublishReq(u, rid) ==
    [IdleReq EXCEPT !.op = "publish", !.pc = "load", !.user = u, !.rid = rid]

StartPublish(p, u, rid) == StartReq(p, PublishReq(u, rid))

\* get_object with the permission class of the action
PublishLoad(p) ==
    /\ req[p].op = "publish" /\ req[p].pc = "load"
    /\ LET r == req[p]
           row == recipes[r.rid]
       IN  IF ~InQueryset(r.user, row) THEN Done(p, "NotFound")
           ELSE IF ~IsRecipeAuthorOrReadOnly(r.user, row, FALSE) THEN Done(p, "Forbidden")
           ELSE req' = [req EXCEPT ![p].inst = row,
                                   ![p].pref = QueryIngredients(r.rid),
                                   ![p].hasPref = TRUE,
                                   ![p].readIngredients = TRUE,
                                   ![p].pc = "save"]
    /\ UNCHANGED <<db, started>>

\* the test of the loaded visibility, and recipe.save(): every field of the
\* loaded instance is written
PublishSave(p) ==
    /\ req[p].op = "publish" /\ req[p].pc = "save"
    /\ LET r == req[p]
           inst == WithSlug([r.inst EXCEPT !.visibility = "public"])
       IN  IF r.inst.visibility \notin {"draft", "pending"}
           THEN Done(p, "BadRequest") /\ UNCHANGED recipes
           ELSE IF ~SlugUnique(r.rid, inst.slug)
           THEN Done(p, "IntegrityError") /\ UNCHANGED recipes
           ELSE /\ recipes' = [recipes EXCEPT ![r.rid] = inst]
                /\ req' = [req EXCEPT ![p].inst = inst, ![p].saved = TRUE,
                                      ![p].pc = "done", ![p].result = "ok"]
    /\ UNCHANGED <<nextRecipeId, ingredients, versions, feedback, social, started>>

----------------------------------------------------------------------------
(* FavoritesViewSet.add_favorite and remove_favorite *)

\* unique_together = ('user', 'recipe')
FavoriteUnique_dropped(u, rid) == TRUE

FavoriteUnique(u, rid) == \A t \in favorites : ~(t.user = u /\ t.recipe = rid)

HasFavorite(u, rid) == \E t \in favorites : t.user = u /\ t.recipe = rid

\* POST /users/<user_id>/favorites/ with recipe_id in the body; target is
\* the user_id of the URL
AddFavoriteReq(u, target, rid) ==
    [IdleReq EXCEPT !.op = "add_favorite", !.pc = "load", !.user = u, !.rid = rid,
                    !.data = [user_id |-> target]]

StartAddFavorite(p, u, target, rid) == StartReq(p, AddFavoriteReq(u, target, rid))

RemoveFavoriteReq(u, target, rid) ==
    [IdleReq EXCEPT !.op = "remove_favorite", !.pc = "load", !.user = u, !.rid = rid,
                    !.data = [user_id |-> target]]

StartRemoveFavorite(p, u, target, rid) == StartReq(p, RemoveFavoriteReq(u, target, rid))

\* IsAuthenticated, the comparison of request.user.id with user_id, and
\* Recipe.objects.get(pk=recipe_id)
FavoriteLoad(p) ==
    /\ req[p].op \in {"add_favorite", "remove_favorite"} /\ req[p].pc = "load"
    /\ LET r == req[p]
       IN  IF ~IsAuthenticated(r.user) THEN Done(p, "NotAuthenticated")
           ELSE IF r.user # r.data.user_id THEN Done(p, "Forbidden")
           ELSE IF ~RecipeExists(r.rid) THEN Done(p, "NotFound")
           ELSE req' = [req EXCEPT ![p].inst = recipes[r.rid],
                                   ![p].pc = IF r.op = "add_favorite" THEN "fav_get"
                                             ELSE "fav_delete"]
    /\ UNCHANGED <<db, started>>

\* get_or_create: self.get(user=self, recipe=recipe)
FavoriteGet(p) ==
    /\ req[p].op = "add_favorite" /\ req[p].pc = "fav_get"
    /\ IF HasFavorite(req[p].user, req[p].rid) THEN Done(p, "AlreadyExists")
       ELSE req' = [req EXCEPT ![p].pc = "fav_create"]
    /\ UNCHANGED <<db, started>>

\* get_or_create: self.create(...) inside transaction.atomic
FavoriteCreate(p) ==
    /\ req[p].op = "add_favorite" /\ req[p].pc = "fav_create"
    /\ LET r == req[p]
       IN  IF RecipeExists(r.rid) /\ FavoriteUnique(r.user, r.rid)
           THEN /\ favorites' = favorites \cup
                       {[id |-> nextFavoriteId, user |-> r.user, recipe |-> r.rid]}
                /\ nextFavoriteId' = nextFavoriteId + 1
                /\ req' = [req EXCEPT ![p].saved = TRUE, ![p].pc = "fav_fetch"]
           ELSE /\ req' = [req EXCEPT ![p].pc = "fav_retry"]
                /\ UNCHANGED <<favorites, nextFavoriteId>>
    /\ UNCHANGED <<recipes, nextRecipeId, ingredients, versions, feedback,
                   comments, nextCommentId, pageCache, accounts, started>>

\* get_or_create: after IntegrityError, self.get(...) again, and the error
\* is raised when the row is still not there
FavoriteRetry(p) ==
    /\ req[p].op = "add_favorite" /\ req[p].pc = "fav_retry"
    /\ IF HasFavorite(req[p].user, req[p].rid)
       THEN req' = [req EXCEPT ![p].found = TRUE, ![p].pc = "done",
                               ![p].result = "AlreadyExists"]
       ELSE Done(p, "IntegrityError")
    /\ UNCHANGED <<db, started>>

\* Favorite.objects.get(user=request.user, recipe=recipe) for the response
FavoriteFetch(p) ==
    /\ req[p].op = "add_favorite" /\ req[p].pc = "fav_fetch"
    /\ IF HasFavorite(req[p].user, req[p].rid) THEN Done(p, "Created")
       ELSE Done(p, "DoesNotExist")
    /\ UNCHANGED <<db, started>>

\* Favorite.objects.filter(user=self, recipe=recipe).delete()
FavoriteDelete(p) ==
    /\ req[p].op = "remove_favorite" /\ req[p].pc = "fav_delete"
    /\ favorites' = {t \in favorites : ~(t.user = req[p].user /\ t.recipe = req[p].rid)}
    /\ Done(p, "ok")
    /\ UNCHANGED <<recipes, nextRecipeId, ingredients, versions, feedback,
                   nextFavoriteId, comments, nextCommentId, pageCache, accounts, started>>

----------------------------------------------------------------------------
(* The end of a request *)

\* the worker is killed, times out or loses its connection: the statements
\* already executed stay committed
Abort(p) ==
    /\ Active(p)
    /\ Done(p, "aborted")
    /\ UNCHANGED <<db, started>>

\* the response has been returned
Finish(p) ==
    /\ req[p].pc = "done"
    /\ req' = [req EXCEPT ![p] = IdleReq]
    /\ UNCHANGED <<db, started>>

----------------------------------------------------------------------------
(* Concurrent updates of one recipe *)

\* a recipe as RecipeCreateUpdateSerializer.create leaves it
RecipeRow(title, author, visibility, serving) ==
    [exists |-> TRUE, title |-> title, description |-> "d1",
     instructions |-> "i1", serving_size |-> serving, cook_time |-> 20,
     visibility |-> visibility, author |-> author, slug |-> slugify(title),
     average_rating |-> <<0, 1>>, total_ratings |-> 0, view_count |-> 0]

InitialVersion(row, rows) ==
    [version_number |-> 1, title |-> row.title, description |-> row.description,
     instructions |-> row.instructions, ingredients_snapshot |-> Snapshot(Ordered(rows)),
     changed_by |-> row.author, change_summary |-> "Initial version"]

UpdateInputs ==
    { [description |-> "d2"],
      [title |-> "Stew", instructions |-> "i2"],
      [ingredients_data |-> <<IngSalt>>],
      [ingredients_data |-> <<>>],
      [serving_size |-> 2, ingredients_data |-> <<IngFlour, IngEgg>>],
      [serving_size |-> 0] }

InitUpdate ==
    /\ recipes = [r \in RecipeIds |->
                    IF r = 1 THEN RecipeRow("Pasta", "alice", "public", 4) ELSE NoRecipe]
    /\ nextRecipeId = 2
    /\ ingredients = [r \in RecipeIds |-> IF r = 1 THEN <<IngFlour, IngEgg>> ELSE <<>>]
    /\ versions = [r \in RecipeIds |->
                     IF r = 1 THEN <<InitialVersion(RecipeRow("Pasta", "alice", "public", 4),
                                                    <<IngFlour, IngEgg>>)>>
                     ELSE <<>>]
    /\ ratings = {}
    /\ nextRatingId = 1
    /\ notifications = <<>>
    /\ favorites = {}
    /\ nextFavoriteId = 1
    /\ comments = {}
    /\ nextCommentId = 1
    /\ pageCache = NoPage
    /\ follows = <<>>
    /\ messages = <<>>
    /\ now = 1
    /\ req = [p \in Procs |-> IdleReq]
    /\ started = 0

NextUpdate ==
    \E p \in Procs :
        \/ \E d \in UpdateInputs : StartUpdate(p, "alice", 1, d)
        \/ UpdateLoad(p)
        \/ UpdateSave(p)
        \/ UpdateDeleteIngredients(p)
        \/ InsertIngredient(p)
        \/ VersionRead(p)
        \/ VersionInsert(p)
        \/ Abort(p)
        \/ Finish(p)

SpecUpdate == InitUpdate /\ [][NextUpdate]_vars

----------------------------------------------------------------------------
(* Claims *)

\* C1: for every recipe the stored versions, in creation order, carry the
\* version numbers 1, 2, 3, ...: no number is assigned twice and none is
\* skipped, also when appends of concurrent requests interleave.
VersionNumbersGapless ==
    \A r \in RecipeIds :
        \A i \in 1..Len(versions[r]) : versions[r][i].version_number = i

\* two concurrent appends computed the same number; one stored it, the other
\* was refused by the unique constraint
ConcurrentAppendsRaced ==
    \E p, q \in Procs :
        /\ p # q
        /\ req[p].appended /\ req[p].pc = "done"
        /\ req[q].pc = "done" /\ req[q].result = "IntegrityError"
        /\ req[q].vnum = req[p].vnum
        /\ Len(versions[1]) >= 2


\* the rows that a supplied ingredients list becomes
RowsOf(l) == [i \in 1..Len(l) |-> IngredientRow(l[i])]

\* the step on which request p returns a successful response
Completes(p) ==
    /\ req[p].pc # "done"
    /\ req'[p].pc = "done"
    /\ req'[p].result = "ok"

\* C6: in every state that other requests can read, an update whose changes
\* are stored has had its RecipeVersion appended.
UpdateNeverWithoutVersion ==
    \A p \in Procs : (req[p].op = "update" /\ req[p].saved) => req[p].appended

\* C7: when an update that carries an ingredients list L completes,
\* the stored ingredients of the recipe are exactly L.
ReplaceExactlyL ==
    [][\A p \in Procs :
        (Completes(p) /\ req[p].op = "update"
                      /\ "ingredients_data" \in DOMAIN req[p].data)
        => ingredients'[req[p].rid] = RowsOf(req[p].data.ingredients_data)]_vars

\* Replacement by a request that ran alone: when an update that carries an
\* ingredients list L completes and no other request for the same recipe was
\* in flight while it ran, the stored ingredients of the recipe are exactly L.
ReplaceExactlyLWhenAlone ==
    [][\A p \in Procs :
        (Completes(p) /\ req[p].op = "update" /\ req[p].alone
                      /\ "ingredients_data" \in DOMAIN req[p].data)
        => ingredients'[req[p].rid] = RowsOf(req[p].data.ingredients_data)]_vars

\* an update that ran alone has replaced the two initial ingredients by its
\* own list
ReplacedAlone ==
    \E p \in Procs :
        /\ req[p].op = "update" /\ req[p].pc = "done" /\ req[p].result = "ok"
        /\ req[p].alone
        /\ "ingredients_data" \in DOMAIN req[p].data
        /\ req[p].data.ingredients_data \in {<<>>, <<IngSalt>>}
        /\ ingredients[1] = RowsOf(req[p].data.ingredients_data)

\* C15: the step that completes an update request that ran alone appends
\* exactly one version; its number is the previous maximum plus 1 and its
\* title, description, instructions and snapshot equal the stored recipe and
\* the stored ingredient list after the update.
UpdateAppendsCurrentState ==
    [][\A p \in Procs :
        (Completes(p) /\ req[p].op = "update" /\ req[p].alone)
        => LET rid == req[p].rid
               row == recipes'[rid]
               vs == versions'[rid]
               v == vs[Len(vs)]
           IN  /\ vs = Append(versions[rid], v)
               /\ v.version_number = MaxVersionNumber(versions[rid]) + 1
               /\ v.title = row.title
               /\ v.description = row.description
               /\ v.instructions = row.instructions
               /\ v.ingredients_snapshot = Snapshot(Ordered(ingredients'[rid]))]_vars

----------------------------------------------------------------------------
(* Create requests *)

IngNoName == [quantity |-> 100, unit |-> "g"]
IngNegative == [name |-> "salt", quantity |-> -25, unit |-> "tsp"]

CreateInputs ==
    { [title |-> "Pasta", cook_time |-> 20, ingredients_data |-> <<IngFlour, IngEgg>>],
      [title |-> "Stew", cook_time |-> 10, serving_size |-> 2],
      [title |-> "", cook_time |-> 20],
      [title |-> "Stew", cook_time |-> 0],
      [title |-> "Stew", cook_time |-> 10, serving_size |-> 0],
      [title |-> "Stew", cook_time |-> 10,
       ingredients_data |-> <<IngFlour, IngNoName, IngEgg>>],
      [title |-> "Stew", cook_time |-> 10, ingredients_data |-> <<IngNegative>>] }

InitCreate ==
    /\ recipes = [r \in RecipeIds |-> NoRecipe]
    /\ nextRecipeId = 1
    /\ ingredients = [r \in RecipeIds |-> <<>>]
    /\ versions = [r \in RecipeIds |-> <<>>]
    /\ ratings = {}
    /\ nextRatingId = 1
    /\ notifications = <<>>
    /\ favorites = {}
    /\ nextFavoriteId = 1
    /\ comments = {}
    /\ nextCommentId = 1
    /\ pageCache = NoPage
    /\ follows = <<>>
    /\ messages = <<>>
    /\ now = 1
    /\ req = [p \in Procs |-> IdleReq]
    /\ started = 0

NextCreate ==
    \E p \in Procs :
        \/ \E d \in CreateInputs : StartCreate(p, "alice", d)
        \/ CreateValidate(p)
        \/ CreateInsert(p)
        \/ InsertIngredient(p)
        \/ VersionRead(p)
        \/ VersionSnap(p)
        \/ VersionInsert(p)
        \/ Abort(p)
        \/ Finish(p)

SpecCreate == InitCreate /\ [][NextCreate]_vars

\* the preconditions of create, as the claim lists them
MalformedIngredient(g) ==
    \/ "name" \notin DOMAIN g
    \/ "name" \in DOMAIN g /\ g.name = ""
    \/ "quantity" \in DOMAIN g /\ g.quantity < 0

ViolatesPrecondition(d) ==
    \/ d.title = ""
    \/ d.cook_time < 1
    \/ "serving_size" \in DOMAIN d /\ d.serving_size < 1
    \/ /\ "ingredients_data" \in DOMAIN d
       /\ \E i \in 1..Len(d.ingredients_data) : MalformedIngredient(d.ingredients_data[i])

\* C4: a create request that violates a precondition is rejected with a
\* validation error on its first step, and that step writes no Recipe, no
\* Ingredient and no RecipeVersion row.
CreateRejectsInvalid ==
    [][\A p \in Procs :
        (/\ req[p].op = "create" /\ req[p].pc = "validate"
         /\ ViolatesPrecondition(req[p].data)
         /\ req'[p] # req[p])
        => /\ req'[p].pc = "done"
           /\ req'[p].result \in {"ValidationError", "aborted"}
           /\ db' = db]_vars

\* two valid ingredients and one without a name: rejected, nothing stored
MalformedIngredientRejected ==
    \E p \in Procs :
        /\ req[p].op = "create" /\ req[p].pc = "done"
        /\ req[p].result = "ValidationError"
        /\ "ingredients_data" \in DOMAIN req[p].data
        /\ req[p].data.ingredients_data = <<IngFlour, IngNoName, IngEgg>>
        /\ req[p].rid = 0
        /\ \A r \in RecipeIds : recipes[r].exists => recipes[r].title # "Stew"
        /\ \A r \in RecipeIds : ~recipes[r].exists => ingredients[r] = <<>> /\ versions[r] = <<>>

----------------------------------------------------------------------------
(* Rating requests *)

RatingValues == {0, 2, 5}

RatingIds == 1..MaxRequests

InitRating ==
    /\ recipes = [r \in RecipeIds |->
                    IF r = 1 THEN RecipeRow("Pasta", "alice", "public", 4) ELSE NoRecipe]
    /\ nextRecipeId = 2
    /\ ingredients = [r \in RecipeIds |-> <<>>]
    /\ versions = [r \in RecipeIds |->
                     IF r = 1 THEN <<InitialVersion(RecipeRow("Pasta", "alice", "public", 4),
                                                    <<>>)>>
                     ELSE <<>>]
    /\ ratings = {}
    /\ nextRatingId = 1
    /\ notifications = <<>>
    /\ favorites = {}
    /\ nextFavoriteId = 1
    /\ comments = {}
    /\ nextCommentId = 1
    /\ pageCache = NoPage
    /\ follows = <<>>
    /\ messages = <<>>
    /\ now = 1
    /\ req = [p \in Procs |-> IdleReq]
    /\ started = 0

NextRating ==
    \/ \E p \in Procs :
        \/ \E u \in Users, v \in RatingValues : StartRate(p, u, 1, v)
        \/ \E u \in Users, pk \in RatingIds, v \in RatingValues :
              StartRateUpdate(p, u, 1, pk, v)
        \/ \E u \in Users, pk \in RatingIds : StartRateDelete(p, u, 1, pk)
        \/ RateLoad(p)
        \/ RateUpsert(p)
        \/ RateExists(p)
        \/ RateAvg(p)
        \/ RateCount(p)
        \/ RateSave(p)
        \/ RateNotify(p)
        \/ RatingLoad(p)
        \/ RateUpdateSave(p)
        \/ RateDeleteRow(p)
        \/ Finish(p)
    \/ \E pk \in RatingIds : AdminFlagSpam(pk)

SpecRating == InitRating /\ [][NextRating]_vars

NonSpamRatingsOf(rid) == {t \in ratings : t.recipe = rid /\ ~t.is_spam}

AggregateMatches(r) ==
    /\ recipes[r].average_rating
         = Quotient(SumRatings(NonSpamRatingsOf(r)), Cardinality(NonSpamRatingsOf(r)))
    /\ recipes[r].total_ratings = Cardinality(NonSpamRatingsOf(r))

\* C2: when a rating create, update or delete request completes and no other
\* request is in flight, the stored average_rating of the recipe is the mean
\* of its existing non-spam ratings (0.0 if none) and total_ratings is their
\* number.
RatingAggregateCorrect ==
    [][\A p \in Procs :
        (/\ Completes(p)
         /\ req[p].op \in {"rate", "rate_update", "rate_delete"}
         /\ \A q \in Procs : ~InFlight(q)')
        => AggregateMatches(req[p].rid)']_vars

\* the rows of one user for one recipe
RatingsBy(u, rid) == {t \in ratings : t.user = u /\ t.recipe = rid}

\* the step on which request p, a rating POST of a user who has rated the
\* recipe before, runs update_or_create
Resubmits(p) ==
    /\ req[p].op = "rate" /\ req[p].pc = "rate_upsert"
    /\ req'[p].pc # req[p].pc
    /\ RatingsBy(req[p].user, req[p].rid) # {}

----------------------------------------------------------------------------
(* Who may change a recipe *)

AccessInputs ==
    { [description |-> "Hacked"],
      [ingredients_data |-> <<IngSalt>>] }

InitAccess ==
    /\ recipes = [r \in RecipeIds |->
                    IF r = 1 THEN RecipeRow("Pasta", "alice", "public", 4)
                    ELSE IF r = 2 THEN RecipeRow("Stew", "alice", "draft", 2)
                    ELSE NoRecipe]
    /\ nextRecipeId = 3
    /\ ingredients = [r \in RecipeIds |-> IF r = 1 THEN <<IngFlour, IngEgg>> ELSE <<>>]
    /\ versions = [r \in RecipeIds |->
                     IF r = 1 THEN <<InitialVersion(RecipeRow("Pasta", "alice", "public", 4),
                                                    <<IngFlour, IngEgg>>)>>
                     ELSE IF r = 2 THEN <<InitialVersion(RecipeRow("Stew", "alice", "draft", 2),
                                                         <<>>)>>
                     ELSE <<>>]
    /\ ratings = {}
    /\ nextRatingId = 1
    /\ notifications = <<>>
    /\ favorites = {}
    /\ nextFavoriteId = 1
    /\ comments = {}
    /\ nextCommentId = 1
    /\ pageCache = NoPage
    /\ follows = <<>>
    /\ messages = <<>>
    /\ now = 1
    /\ req = [p \in Procs |-> IdleReq]
    /\ started = 0

Actors == Users \cup {Anonymous}

NextAccess ==
    \E p \in Procs :
        \/ \E u \in Actors, rid \in {1, 2}, d \in AccessInputs : StartUpdate(p, u, rid, d)
        \/ \E u \in Actors, rid \in {1, 2} : StartDelete(p, u, rid)
        \/ UpdateLoad(p)
        \/ UpdateSave(p)
        \/ UpdateDeleteIngredients(p)
        \/ InsertIngredient(p)
        \/ VersionRead(p)
        \/ VersionInsert(p)
        \/ DeleteLoad(p)
        \/ DeleteCascade(p)
        \/ Finish(p)

SpecAccess == InitAccess /\ [][NextAccess]_vars

\* C3: a step of an update or delete request made by an authenticated user
\* who is not the author of a recipe that the user can see leaves the recipe,
\* its ingredients and its versions unchanged, and the request ends as
\* forbidden.
OnlyAuthorChangesRecipe ==
    [][\A p \in Procs :
        (/\ req[p].op \in {"update", "delete"}
         /\ req[p].pc # "done"
         /\ req'[p] # req[p]
         /\ RecipeExists(req[p].rid)
         /\ IsAuthenticated(req[p].user)
         /\ req[p].user # recipes[req[p].rid].author
         /\ InQueryset(req[p].user, recipes[req[p].rid]))
        => /\ recipes' = recipes
           /\ ingredients' = ingredients
           /\ versions' = versions
           /\ req'[p].pc = "done" => req'[p].result = "Forbidden"]_vars

----------------------------------------------------------------------------
(* Scaling the ingredients of a recipe *)

Quantities == {10, 25, 150}
ServingSizes == {1, 3, 4}
Targets == {0 - 1, 0, 1, 3, 8}
EndpointTargets == {0, 8}

InitScale ==
    /\ \E s \in ServingSizes :
          recipes = [r \in RecipeIds |->
                       IF r = 1 THEN RecipeRow("Pasta", "alice", "public", s)
                       ELSE IF r = 2 THEN RecipeRow("Stew", "alice", "draft", 2)
                       ELSE NoRecipe]
    /\ nextRecipeId = 3
    /\ \E q \in Quantities :
          ingredients = [r \in RecipeIds |->
                           IF r = 1 THEN <<Ing("flour", q, "g"), IngEgg>>
                           ELSE IF r = 2 THEN <<IngSalt>>
                           ELSE <<>>]
    /\ versions = [r \in RecipeIds |->
                     IF r \in {1, 2} THEN <<InitialVersion(recipes[r], ingredients[r])>>
                     ELSE <<>>]
    /\ ratings = {}
    /\ nextRatingId = 1
    /\ notifications = <<>>
    /\ favorites = {}
    /\ nextFavoriteId = 1
    /\ comments = {}
    /\ nextCommentId = 1
    /\ pageCache = NoPage
    /\ follows = <<>>
    /\ messages = <<>>
    /\ now = 1
    /\ req = [p \in Procs |-> IdleReq]
    /\ started = 0

NextScale ==
    \E p \in Procs :
        \/ \E n \in Targets : StartScale(p, 1, n)
        \/ \E u \in Actors, rid \in {1, 2}, n \in EndpointTargets :
              StartScaleEndpoint(p, u, rid, n)
        \/ ScaleGuard(p)
        \/ ScaleRead(p)
        \/ ScaleLoad(p)
        \/ ScaleValidate(p)
        \/ Finish(p)

SpecScale == InitScale /\ [][NextScale]_vars

\* the binary expansion of r / b after int and bits, rounded as mode says
RECURSIVE BinaryOfRational(_, _, _, _, _)
BinaryOfRational(int, bits, r, b, mode) ==
    IF r = 0 \/ SigBits(int, bits) > FloatBits
    THEN FloatRound(int, bits, r # 0, mode)
    ELSE BinaryOfRational(int, Append(bits, (2 * r) \div b), (2 * r) % b, b, mode)

\* the float at or next below, and at or next above, the rational a / b
FloatBelow(a, b) == BinaryOfRational(a \div b, <<>>, a % b, b, "floor")
FloatAbove(a, b) == BinaryOfRational(a \div b, <<>>, a % b, b, "ceiling")

\* a / b is the value of a float
IsFloat(a, b) == FloatBelow(a, b) = FloatAbove(a, b)

ScaleOps == {"scale", "scale_endpoint"}

\* a call of get_ingredients_scaled(n) with n > 0 that has returned
Scaled(p) ==
    /\ req[p].op = "scale" /\ req[p].pc = "done"
    /\ req[p].data.new_serving_size > 0

\* one entry per ingredient, with its name, unit and type
EntriesMatch(p) ==
    LET rows == QueryIngredients(req[p].rid)
        out == req[p].out
    IN  /\ req[p].result = "ok"
        /\ Len(out) = Len(rows)
        /\ \A i \in 1..Len(rows) :
              /\ out[i].name = rows[i].name
              /\ out[i].unit = rows[i].unit
              /\ out[i].type = rows[i].type

\* C8: get_ingredients_scaled(n), n > 0, returns for every ingredient an
\* entry whose quantity is exactly q * n / s.
ScalingExact ==
    \A p \in Procs :
        Scaled(p) =>
            /\ EntriesMatch(p)
            /\ LET rows == QueryIngredients(req[p].rid)
                   n == req[p].data.new_serving_size
                   s == recipes[req[p].rid].serving_size
               IN  \A i \in 1..Len(rows) :
                      /\ IsFloat(rows[i].quantity * n, 100 * s)
                      /\ req[p].out[i].quantity = FloatBelow(rows[i].quantity * n, 100 * s)

\* C8, amended: the quantity of every entry is a float next to q * n / s,
\* the float at or next below it or the float at or next above it, and so
\* q * n / s itself whenever that is the value of a float.
ScalingWithinOneFloat ==
    \A p \in Procs :
        Scaled(p) =>
            /\ EntriesMatch(p)
            /\ LET rows == QueryIngredients(req[p].rid)
                   n == req[p].data.new_serving_size
                   s == recipes[req[p].rid].serving_size
               IN  \A i \in 1..Len(rows) :
                      req[p].out[i].quantity \in
                          {FloatBelow(rows[i].quantity * n, 100 * s),
                           FloatAbove(rows[i].quantity * n, 100 * s)}

\* a scaled list that holds a quantity q * n / s that no float has, next to
\* one that a float has
ScaledInexactly ==
    \E p \in Procs :
        /\ Scaled(p)
        /\ req[p].result = "ok"
        /\ Len(req[p].out) = 2
        /\ LET rows == QueryIngredients(req[p].rid)
               n == req[p].data.new_serving_size
               s == recipes[req[p].rid].serving_size
           IN  /\ \E i \in 1..2 : ~IsFloat(rows[i].quantity * n, 100 * s)
               /\ \E i \in 1..2 : IsFloat(rows[i].quantity * n, 100 * s)

\* C9: a step of a scale request, of the method or of the endpoint, whether
\* it goes on, succeeds or fails, leaves the recipes, the ingredient rows
\* and the versions as they were.
ScalingIsPureRead ==
    [][\A p \in Procs :
        (/\ req'[p] # req[p]
         /\ req[p].op \in ScaleOps \/ req'[p].op \in ScaleOps)
        => /\ recipes' = recipes
           /\ ingredients' = ingredients
           /\ versions' = versions]_vars

\* a call of the method has returned a list and a request to the endpoint
\* has failed
ScaledAndFailed ==
    \E p, q \in Procs :
        /\ req[p].op = "scale" /\ req[p].pc = "done" /\ req[p].result = "ok"
        /\ req[p].out # <<>>
        /\ req[q].op = "scale_endpoint" /\ req[q].pc = "done"
        /\ req[q].result = "AssertionError"

\* C10: a scale request with new_serving_size <= 0 that is let through to
\* the recipe ends with a validation error, returns no list, and has read
\* no ingredient row.
InvalidTargetRejectedEarly ==
    \A p \in Procs :
        (/\ req[p].op \in ScaleOps /\ req[p].pc = "done"
         /\ req[p].data.new_serving_size <= 0
         /\ req[p].result \notin {"NotAuthenticated", "NotFound", "Forbidden"})
        => /\ req[p].result \in {"ValueError", "ValidationError"}
           /\ req[p].out = <<>>
           /\ ~req[p].readIngredients

----------------------------------------------------------------------------
(* The version ledger under every operation on a recipe *)

LedgerInputs ==
    { [title |-> "Stew", ingredients_data |-> <<IngSalt>>],
      [description |-> "d2"] }

InitLedger ==
    /\ recipes = [r \in RecipeIds |->
                    IF r = 1 THEN RecipeRow("Pasta", "alice", "draft", 4) ELSE NoRecipe]
    /\ nextRecipeId = 2
    /\ ingredients = [r \in RecipeIds |-> IF r = 1 THEN <<IngFlour, IngEgg>> ELSE <<>>]
    /\ versions = [r \in RecipeIds |->
                     IF r = 1 THEN <<InitialVersion(recipes[1], ingredients[1])>>
                     ELSE <<>>]
    /\ ratings = {}
    /\ nextRatingId = 1
    /\ notifications = <<>>
    /\ favorites = {}
    /\ nextFavoriteId = 1
    /\ comments = {}
    /\ nextCommentId = 1
    /\ pageCache = NoPage
    /\ follows = <<>>
    /\ messages = <<>>
    /\ now = 1
    /\ req = [p \in Procs |-> IdleReq]
    /\ started = 0

NextLedger ==
    \E p \in Procs :
        \/ \E d \in LedgerInputs : StartUpdate(p, "alice", 1, d)
        \/ StartPublish(p, "alice", 1)
        \/ StartRate(p, "bob", 1, 5)
        \/ StartScale(p, 1, 8)
        \/ StartDelete(p, "alice", 1)
        \/ UpdateLoad(p)
        \/ UpdateSave(p)
        \/ UpdateDeleteIngredients(p)
        \/ InsertIngredient(p)
        \/ VersionRead(p)
        \/ VersionInsert(p)
        \/ PublishLoad(p)
        \/ PublishSave(p)
        \/ RateLoad(p)
        \/ RateUpsert(p)
        \/ RateExists(p)
        \/ RateAvg(p)
        \/ RateCount(p)
        \/ RateSave(p)
        \/ RateNotify(p)
        \/ ScaleGuard(p)
        \/ ScaleRead(p)
        \/ DeleteLoad(p)
        \/ DeleteCascade(p)
        \/ Finish(p)

SpecLedger == InitLedger /\ [][NextLedger]_vars

\* the fields of a version that the ledger promises to keep
Frozen(v) ==
    [version_number |-> v.version_number, title |-> v.title,
     description |-> v.description, instructions |-> v.instructions,
     ingredients_snapshot |-> v.ingredients_snapshot]

\* the step deletes recipe rid
Deletes(rid) == recipes[rid].exists /\ ~recipes'[rid].exists

\* C11: a stored version keeps its version_number, title, description,
\* instructions and ingredients_snapshot on every step of an update,
\* ingredient replacement, publish, rating or scale request, and is removed
\* only by the step that deletes its recipe.
VersionsImmutable ==
    [][\A rid \in RecipeIds :
        \/ Deletes(rid) /\ versions'[rid] = <<>>
        \/ /\ Len(versions'[rid]) >= Len(versions[rid])
           /\ \A i \in 1..Len(versions[rid]) :
                 Frozen(versions'[rid][i]) = Frozen(versions[rid][i])]_vars

\* version 1 still shows the first title and ingredients after an update
\* that changed both and a publish
OldVersionKept ==
    /\ Len(versions[1]) = 2
    /\ recipes[1].title = "Stew" /\ recipes[1].visibility = "public"
    /\ ingredients[1] = <<IngSalt>>
    /\ versions[1][1].title = "Pasta"
    /\ Len(versions[1][1].ingredients_snapshot) = 2
    /\ versions[1][2].title = "Stew"

----------------------------------------------------------------------------
(* Favorites *)

InitFavorite ==
    /\ recipes = [r \in RecipeIds |->
                    IF r = 1 THEN RecipeRow("Pasta", "alice", "public", 4)
                    ELSE IF r = 2 THEN RecipeRow("Stew", "bob", "public", 2)
                    ELSE NoRecipe]
    /\ nextRecipeId = 3
    /\ ingredients = [r \in RecipeIds |-> <<>>]
    /\ versions = [r \in RecipeIds |->
                     IF r \in {1, 2} THEN <<InitialVersion(recipes[r], <<>>)>> ELSE <<>>]
    /\ ratings = {}
    /\ nextRatingId = 1
    /\ notifications = <<>>
    /\ favorites = {}
    /\ nextFavoriteId = 1
    /\ comments = {}
    /\ nextCommentId = 1
    /\ pageCache = NoPage
    /\ follows = <<>>
    /\ messages = <<>>
    /\ now = 1
    /\ req = [p \in Procs |-> IdleReq]
    /\ started = 0

NextFavorite ==
    \E p \in Procs :
        \/ \E u \in Actors, target \in Users, rid \in RecipeIds :
              StartAddFavorite(p, u, target, rid)
        \/ \E u \in Users, rid \in {1, 2} : StartRemoveFavorite(p, u, u, rid)
        \/ FavoriteLoad(p)
        \/ FavoriteGet(p)
        \/ FavoriteCreate(p)
        \/ FavoriteRetry(p)
        \/ FavoriteFetch(p)
        \/ FavoriteDelete(p)
        \/ Finish(p)

SpecFavorite == InitFavorite /\ [][NextFavorite]_vars

\* two add-favorite requests of one user for one recipe, the only requests
\* made, have both returned
BothAdded(p, q) ==
    /\ p # q /\ started = 2
    /\ req[p].op = "add_favorite" /\ req[p].pc = "done"
    /\ req[q].op = "add_favorite" /\ req[q].pc = "done"
    /\ req[p].user = req[q].user /\ req[p].rid = req[q].rid
    /\ req[p].user = req[p].data.user_id /\ req[q].user = req[q].data.user_id
    /\ RecipeExists(req[p].rid)

\* C12: there is at most one Favorite row per user and recipe, and of two
\* add-favorite requests of one user for one recipe exactly one reports the
\* favorite as created and the other as already existing.
FavoriteOncePerUserAndRecipe ==
    /\ \A s, t \in favorites : (s.user = t.user /\ s.recipe = t.recipe) => s = t
    /\ \A p, q \in Procs :
          BothAdded(p, q) =>
              {req[p].result, req[q].result} = {"Created", "AlreadyExists"}

\* both requests missed the row in their first get, one insert was refused
\* by the unique constraint and found the row of the other
DuplicateAddDetected ==
    \E p, q \in Procs :
        /\ BothAdded(p, q)
        /\ ~req[p].alone /\ ~req[q].alone
        /\ req[p].saved /\ req[p].result = "Created"
        /\ ~req[q].saved /\ req[q].found /\ req[q].result = "AlreadyExists"
        /\ Cardinality(favorites) = 1

----------------------------------------------------------------------------
(* Slugs: creates and title changes that meet an existing slug *)

SlugCreateInputs ==
    { [title |-> "Pasta", cook_time |-> 20],
      [title |-> "pasta", cook_time |-> 20, ingredients_data |-> <<IngSalt>>],
      [title |-> "Stew", cook_time |-> 10, ingredients_data |-> <<IngSalt>>],
      [title |-> "!!", cook_time |-> 10] }

SlugUpdateInputs == { [title |-> "Pasta"], [title |-> "Stew"] }

InitSlug ==
    /\ recipes = [r \in RecipeIds |->
                    IF r = 1 THEN RecipeRow("Pasta", "alice", "public", 4) ELSE NoRecipe]
    /\ nextRecipeId = 2
    /\ ingredients = [r \in RecipeIds |-> <<>>]
    /\ versions = [r \in RecipeIds |->
                     IF r = 1 THEN <<InitialVersion(recipes[r], <<>>)>> ELSE <<>>]
    /\ ratings = {}
    /\ nextRatingId = 1
    /\ notifications = <<>>
    /\ favorites = {}
    /\ nextFavoriteId = 1
    /\ comments = {}
    /\ nextCommentId = 1
    /\ pageCache = NoPage
    /\ follows = <<>>
    /\ messages = <<>>
    /\ now = 1
    /\ req = [p \in Procs |-> IdleReq]
    /\ started = 0

NextSlug ==
    \E p \in Procs :
        \/ \E d \in SlugCreateInputs : StartCreate(p, "alice", d)
        \/ \E rid \in RecipeIds, d \in SlugUpdateInputs : StartUpdate(p, "alice", rid, d)
        \/ CreateValidate(p)
        \/ CreateInsert(p)
        \/ UpdateLoad(p)
        \/ UpdateSave(p)
        \/ InsertIngredient(p)
        \/ VersionRead(p)
        \/ VersionSnap(p)
        \/ VersionInsert(p)
        \/ Finish(p)

SpecSlug == InitSlug /\ [][NextSlug]_vars

\* the slug that the create request p would store is the slug of a recipe
SlugTaken(p) ==
    \E r \in RecipeIds :
        recipes[r].exists /\ recipes[r].slug = slugify(req[p].data.title)

----------------------------------------------------------------------------
(* Publish requests *)

\* VISIBILITY_CHOICES
Visibilities == {"draft", "private", "pending", "public"}

InitPublish ==
    /\ \E vis \in [{1, 2} -> Visibilities] :
          recipes = [r \in RecipeIds |->
                       IF r = 1 THEN RecipeRow("Pasta", "alice", vis[1], 4)
                       ELSE IF r = 2 THEN RecipeRow("Stew", "alice", vis[2], 4)
                       ELSE NoRecipe]
    /\ nextRecipeId = 3
    /\ ingredients = [r \in RecipeIds |-> <<>>]
    /\ versions = [r \in RecipeIds |->
                     IF r \in {1, 2} THEN <<InitialVersion(recipes[r], <<>>)>> ELSE <<>>]
    /\ ratings = {}
    /\ nextRatingId = 1
    /\ notifications = <<>>
    /\ favorites = {}
    /\ nextFavoriteId = 1
    /\ comments = {}
    /\ nextCommentId = 1
    /\ pageCache = NoPage
    /\ follows = <<>>
    /\ messages = <<>>
    /\ now = 1
    /\ req = [p \in Procs |-> IdleReq]
    /\ started = 0

NextPublish ==
    \E p \in Procs :
        \/ \E u \in {"alice", "bob"}, rid \in RecipeIds : StartPublish(p, u, rid)
        \/ PublishLoad(p)
        \/ PublishSave(p)
        \/ Finish(p)

SpecPublish == InitPublish /\ [][NextPublish]_vars

\* C18: the step on which a publish request of the author answers succeeds
\* exactly when the stored visibility of the recipe is draft or pending and
\* then stores public; otherwise it answers with an error and the visibility
\* stays as stored (so a publish that follows a successful one is rejected);
\* no step changes a visibility to anything but public.
PublishOnlyFromDraftOrPending ==
    [][/\ \A r \in RecipeIds :
             recipes'[r].visibility \in {recipes[r].visibility, "public"}
       /\ \A p \in Procs :
             (req[p].op = "publish" /\ req[p].pc = "save" /\ req'[p].pc = "done")
             => LET rid == req[p].rid
                    stored == recipes[rid].visibility
                IN  /\ (req'[p].result = "ok") <=> (stored \in {"draft", "pending"})
                    /\ recipes'[rid].visibility =
                          IF req'[p].result = "ok" THEN "public" ELSE stored]_vars

----------------------------------------------------------------------------
(* Notifications after a rating or a comment *)

CommentContents == {"good", " nice ", "  "}

\* recipe 2 has no author: Recipe.author is null=True, blank=True
InitNotify ==
    /\ recipes = [r \in RecipeIds |->
                    IF r = 1 THEN RecipeRow("Pasta", "alice", "public", 4)
                    ELSE IF r = 2 THEN RecipeRow("Stew", NoAuthor, "public", 4)
                    ELSE NoRecipe]
    /\ nextRecipeId = 3
    /\ ingredients = [r \in RecipeIds |-> <<>>]
    /\ versions = [r \in RecipeIds |->
                     IF r \in {1, 2} THEN <<InitialVersion(recipes[r], <<>>)>> ELSE <<>>]
    /\ ratings = {}
    /\ nextRatingId = 1
    /\ notifications = <<>>
    /\ favorites = {}
    /\ nextFavoriteId = 1
    /\ comments = {}
    /\ nextCommentId = 1
    /\ pageCache = NoPage
    /\ follows = <<>>
    /\ messages = <<>>
    /\ now = 1
    /\ req = [p \in Procs |-> IdleReq]
    /\ started = 0

NextNotify ==
    \E p \in Procs :
        \/ \E u \in Users, rid \in RecipeIds, v \in {2, 5} : StartRate(p, u, rid, v)
        \/ \E u \in Users, rid \in RecipeIds, c \in CommentContents :
              StartComment(p, u, rid, c)
        \/ RateLoad(p)
        \/ RateUpsert(p)
        \/ RateExists(p)
        \/ RateAvg(p)
        \/ RateCount(p)
        \/ RateSave(p)
        \/ RateNotify(p)
        \/ CommentLoad(p)
        \/ CommentInsert(p)
        \/ CommentNotify(p)
        \/ Finish(p)

SpecNotify == InitNotify /\ [][NextNotify]_vars

\* C19: the notification step of a rating or comment request ends the
\* request with success whether or not the notification could be stored,
\* and leaves the Rating and Comment rows and the recipe's aggregate as they
\* were stored before it.
NotificationBestEffort ==
    [][\A p \in Procs :
        (req[p].pc \in {"rate_notify", "comment_notify"} /\ req'[p].pc = "done")
        => /\ req'[p].result = "ok"
           /\ ratings' = ratings
           /\ comments' = comments
           /\ recipes' = recipes]_vars

----------------------------------------------------------------------------
(* Deleting a recipe that has rows of every kind, beside other requests *)

CascadeInputs == { [description |-> "d2"], [ingredients_data |-> <<IngSalt>>] }

\* recipe 1 of alice with two ingredients, its first version, and a rating,
\* a comment and a favorite of bob
InitCascade ==
    /\ recipes = [r \in RecipeIds |->
                    IF r = 1
                    THEN [RecipeRow("Pasta", "alice", "public", 4)
                            EXCEPT !.average_rating = <<5, 1>>, !.total_ratings = 1]
                    ELSE NoRecipe]
    /\ nextRecipeId = 2
    /\ ingredients = [r \in RecipeIds |-> IF r = 1 THEN <<IngFlour, IngEgg>> ELSE <<>>]
    /\ versions = [r \in RecipeIds |->
                     IF r = 1 THEN <<InitialVersion(RecipeRow("Pasta", "alice", "public", 4),
                                                    <<IngFlour, IngEgg>>)>>
                     ELSE <<>>]
    /\ ratings = {[id |-> 1, user |-> "bob", recipe |-> 1, rating |-> 5,
                   is_spam |-> FALSE]}
    /\ nextRatingId = 2
    /\ notifications = <<>>
    /\ favorites = {[id |-> 1, user |-> "bob", recipe |-> 1]}
    /\ nextFavoriteId = 2
    /\ comments = {[id |-> 1, user |-> "bob", recipe |-> 1, content |-> "good",
                    is_approved |-> TRUE]}
    /\ nextCommentId = 2
    /\ pageCache = NoPage
    /\ follows = <<>>
    /\ messages = <<>>
    /\ now = 1
    /\ req = [p \in Procs |-> IdleReq]
    /\ started = 0

NextCascade ==
    \E p \in Procs :
        \/ StartDelete(p, "alice", 1)
        \/ \E d \in CascadeInputs : StartUpdate(p, "alice", 1, d)
        \/ \E u \in Users : StartRate(p, u, 1, 2)
        \/ StartComment(p, "bob", 1, "good")
        \/ StartAddFavorite(p, "alice", "alice", 1)
        \/ DeleteLoad(p)
        \/ DeleteCascade(p)
        \/ UpdateLoad(p)
        \/ UpdateSave(p)
        \/ UpdateDeleteIngredients(p)
        \/ InsertIngredient(p)
        \/ VersionRead(p)
        \/ VersionInsert(p)
        \/ RateLoad(p)
        \/ RateUpsert(p)
        \/ RateExists(p)
        \/ RateAvg(p)
        \/ RateCount(p)
        \/ RateSave(p)
        \/ RateNotify(p)
        \/ CommentLoad(p)
        \/ CommentInsert(p)
        \/ CommentNotify(p)
        \/ FavoriteLoad(p)
        \/ FavoriteGet(p)
        \/ FavoriteCreate(p)
        \/ FavoriteRetry(p)
        \/ FavoriteFetch(p)
        \/ Finish(p)

SpecCascade == InitCascade /\ [][NextCascade]_vars

\* the recipes that ingredient, version, rating, comment and favorite rows
\* refer to
ReferencedRecipes ==
    {r \in RecipeIds : ingredients[r] # <<>> \/ versions[r] # <<>>}
      \cup {t.recipe : t \in ratings} \cup {t.recipe : t \in comments}
      \cup {t.recipe : t \in favorites}

\* C20: after every step every ingredient, version, rating, comment and
\* favorite row refers to an existing recipe; the step that completes a
\* delete request leaves the recipe and all rows that referred to it gone;
\* and a version insert that finds its recipe gone ends the request with an
\* integrity error and stores no version.
CascadeOnDelete ==
    [][/\ \A r \in ReferencedRecipes' : recipes'[r].exists
       /\ \A p \in Procs :
             (Completes(p) /\ req[p].op = "delete")
             => /\ ~recipes'[req[p].rid].exists
                /\ req[p].rid \notin ReferencedRecipes'
       /\ \A p \in Procs :
             (req[p].pc = "ver_insert" /\ ~RecipeExists(req[p].rid)
                                        /\ req'[p].pc # req[p].pc)
             => /\ req'[p].pc = "done" /\ req'[p].result = "IntegrityError"
                /\ versions' = versions]_vars

\* the delete has removed the recipe with bob's rating, comment and
\* favorite while an update was between its save and its version: the
\* version insert of the update was refused and nothing refers to recipe 1
VersionRefusedAfterDelete ==
    \E p, q \in Procs :
        /\ req[p].op = "delete" /\ req[p].pc = "done" /\ req[p].result = "ok"
        /\ req[q].op = "update" /\ req[q].pc = "done"
        /\ req[q].result = "IntegrityError"
        /\ req[q].saved /\ req[q].vnum > 0 /\ ~req[q].appended
        /\ ~recipes[1].exists
        /\ ReferencedRecipes = {}
        /\ ratings = {} /\ comments = {} /\ favorites = {}

----------------------------------------------------------------------------
(* Serving sizes: create, update and scale *)

ServingInputs == {0 - 1, 0, 1, 3}

InitServing ==
    /\ recipes = [r \in RecipeIds |->
                    IF r = 1 THEN RecipeRow("Pasta", "alice", "public", 4) ELSE NoRecipe]
    /\ nextRecipeId = 2
    /\ ingredients = [r \in RecipeIds |-> IF r = 1 THEN <<IngFlour>> ELSE <<>>]
    /\ versions = [r \in RecipeIds |->
                     IF r = 1 THEN <<InitialVersion(recipes[r], <<IngFlour>>)>> ELSE <<>>]
    /\ ratings = {}
    /\ nextRatingId = 1
    /\ notifications = <<>>
    /\ favorites = {}
    /\ nextFavoriteId = 1
    /\ comments = {}
    /\ nextCommentId = 1
    /\ pageCache = NoPage
    /\ follows = <<>>
    /\ messages = <<>>
    /\ now = 1
    /\ req = [p \in Procs |-> IdleReq]
    /\ started = 0

NextServing ==
    \E p \in Procs :
        \/ \E v \in ServingInputs :
              StartCreate(p, "alice", [title |-> "Stew", cook_time |-> 10,
                                       serving_size |-> v,
                                       ingredients_data |-> <<IngSalt>>])
        \/ StartCreate(p, "alice", [title |-> "Stew", cook_time |-> 10])
        \/ \E v \in ServingInputs : StartUpdate(p, "alice", 1, [serving_size |-> v])
        \/ \E rid \in RecipeIds, n \in {1, 8} : StartScale(p, rid, n)
        \/ CreateValidate(p)
        \/ CreateInsert(p)
        \/ UpdateLoad(p)
        \/ UpdateSave(p)
        \/ InsertIngredient(p)
        \/ VersionRead(p)
        \/ VersionSnap(p)
        \/ VersionInsert(p)
        \/ ScaleGuard(p)
        \/ ScaleRead(p)
        \/ Finish(p)

SpecServing == InitServing /\ [][NextServing]_vars

\* C21: after every step every stored recipe has serving_size >= 1; the
\* validation step of a create or update request that carries a
\* serving_size below 1 ends the request without success and writes nothing;
\* and every scale call divides by a serving_size >= 1 and never ends in a
\* division by zero.
ServingSizeAtLeastOne ==
    [][/\ \A r \in RecipeIds : recipes'[r].exists => recipes'[r].serving_size >= 1
       /\ \A p \in Procs :
             (/\ req[p].op \in {"create", "update"} /\ req[p].pc \in {"validate", "load"}
              /\ "serving_size" \in DOMAIN req[p].data /\ req[p].data.serving_size < 1
              /\ req'[p].pc # req[p].pc)
             => /\ req'[p].pc = "done" /\ req'[p].result = "ValidationError"
                /\ db' = db
       /\ \A p \in Procs :
             req'[p].op = "scale"
             => /\ req'[p].inst.serving_size >= 1
                /\ req'[p].result # "ZeroDivisionError"]_vars

\* the recipe was given serving size 3 by an update and then scaled to 8
ScaledAfterServingUpdate ==
    \E p \in Procs :
        /\ req[p].op = "scale" /\ req[p].pc = "done" /\ req[p].result = "ok"
        /\ req[p].rid = 1 /\ req[p].inst.serving_size = 3
        /\ req[p].data.new_serving_size = 8
        /\ Len(req[p].out) = 1
        /\ recipes[1].serving_size = 3

----------------------------------------------------------------------------
(* Who may read a recipe *)

InitVisibility ==
    /\ \E vis \in [{1, 2} -> Visibilities] :
          recipes = [r \in RecipeIds |->
                       IF r = 1 THEN RecipeRow("Pasta", "alice", vis[1], 4)
                       ELSE IF r = 2 THEN RecipeRow("Stew", "bob", vis[2], 4)
                       ELSE NoRecipe]
    /\ nextRecipeId = 3
    /\ ingredients = [r \in RecipeIds |-> IF r \in {1, 2} THEN <<IngFlour>> ELSE <<>>]
    /\ versions = [r \in RecipeIds |->
                     IF r \in {1, 2} THEN <<InitialVersion(recipes[r], <<IngFlour>>)>>
                     ELSE <<>>]
    /\ ratings = {}
    /\ nextRatingId = 1
    /\ notifications = <<>>
    /\ favorites = {}
    /\ nextFavoriteId = 1
    /\ comments = {}
    /\ nextCommentId = 1
    /\ pageCache = NoPage
    /\ follows = <<>>
    /\ messages = <<>>
    /\ now = 1
    /\ req = [p \in Procs |-> IdleReq]
    /\ started = 0

NextVisibility ==
    \/ \E p \in Procs :
        \/ \E u \in Actors, rid \in RecipeIds : StartRetrieve(p, u, rid)
        \/ \E u \in Actors : StartList(p, u)
        \/ \E u \in Actors, rid \in RecipeIds : StartStats(p, u, rid)
        \/ \E u \in Actors, rid \in RecipeIds : StartVersions(p, u, rid)
        \/ \E u \in Actors, rid \in RecipeIds : StartVersionList(p, u, rid)
        \/ \E u \in Actors, rid \in RecipeIds : StartScaleEndpoint(p, u, rid, 8)
        \/ RetrieveLoad(p)
        \/ RetrieveCount(p)
        \/ ListPage(p)
        \/ StatsLoad(p)
        \/ VersionsLoad(p)
        \/ ReadRespond(p)
        \/ VersionListLoad(p)
        \/ ScaleLoad(p)
        \/ ScaleValidate(p)
        \/ Finish(p)
    \/ CacheExpire

SpecVisibility == InitVisibility /\ [][NextVisibility]_vars

ReadOps == {"retrieve", "list", "stats", "versions", "version_list", "scale_endpoint"}

\* C22: the response of a retrieve, list, stats, scale or versions request
\* carries data only of recipes that are public or belong to the requesting
\* user, and no step increments the view_count of a recipe that is not
\* public.
NonPublicOnlyForAuthor ==
    [][/\ \A p \in Procs :
             (req[p].op \in ReadOps /\ req[p].pc # "done" /\ req'[p].pc = "done")
             => \A r \in req'[p].seen \cup {i \in RecipeIds : req'[p].out # <<>>
                                                              /\ i = req[p].rid} :
                   \/ recipes[r].visibility = "public"
                   \/ IsAuthenticated(req[p].user) /\ recipes[r].author = req[p].user
       /\ \A r \in RecipeIds :
             recipes'[r].view_count # recipes[r].view_count
             => recipes[r].visibility = "public"]_vars

----------------------------------------------------------------------------
(* The follow graph: User.follows, User.follow, User.unfollow and
   FollowViewSet *)

\* a primary key that no user has
NoSuchUser == "nobody"

\* an insert into the through table without the unique constraint and
\* without ON CONFLICT DO NOTHING
FollowsAdd_plain(rows, from, to) == Append(rows, <<from, to>>)

\* self.follows.add(user): the through table is unique on (from, to) and the
\* insert ignores a conflict
FollowsAdd(rows, from, to) ==
    IF \E i \in 1..Len(rows) : rows[i] = <<from, to>> THEN rows
    ELSE Append(rows, <<from, to>>)

\* self.follows.remove(user): DELETE ... WHERE from = self AND to = user
FollowsRemove(rows, from, to) ==
    SelectSeq(rows, LAMBDA e : e # <<from, to>>)

\* User.follow: what it returns
followReturns(me, user) == user # me

\* User.follow: the rows it leaves
follow(me, user) ==
    IF user # me THEN FollowsAdd(follows, me, user) ELSE follows

\* User.unfollow
unfollow(me, user) == FollowsRemove(follows, me, user)

\* User.is_following
is_following(me, user) == \E i \in 1..Len(follows) : follows[i] = <<me, user>>

\* User.get_follower_count
get_follower_count(me) ==
    Cardinality({i \in 1..Len(follows) : follows[i][2] = me})

\* User.get_following_count
get_following_count(me) ==
    Cardinality({i \in 1..Len(follows) : follows[i][1] = me})

FollowFrame ==
    UNCHANGED <<recipes, nextRecipeId, ingredients, versions, ratings,
                nextRatingId, favorites, nextFavoriteId, comments,
                nextCommentId, pageCache, messages, now, started>>

\* a direct call user.follow(target), as the tests make it
StartFollowCall(p, u, v) ==
    StartReq(p, [IdleReq EXCEPT !.op = "follow", !.pc = "call",
                                !.user = u, !.target = v])

FollowCall(p) ==
    /\ req[p].op = "follow" /\ req[p].pc = "call"
    /\ follows' = follow(req[p].user, req[p].target)
    /\ Done(p, IF followReturns(req[p].user, req[p].target) THEN "True" ELSE "False")
    /\ UNCHANGED notifications
    /\ FollowFrame

\* POST /users/<pk>/follow/
StartFollowUser(p, u, v) ==
    StartReq(p, [IdleReq EXCEPT !.op = "follow_user", !.pc = "load",
                                !.user = u, !.target = v])

\* permission_classes, get_object and check_object_permissions
FollowUserLoad(p) ==
    /\ req[p].op = "follow_user" /\ req[p].pc = "load"
    /\ IF ~IsAuthenticated(req[p].user) THEN Done(p, "401")
       ELSE IF req[p].target \notin Users THEN Done(p, "404")
       ELSE IF req[p].target = req[p].user THEN Done(p, "403")
       ELSE req' = [req EXCEPT ![p].pc = "follow"]
    /\ UNCHANGED <<db, started>>

\* if request.user.follow(target_user)
FollowUserAdd(p) ==
    /\ req[p].op = "follow_user" /\ req[p].pc = "follow"
    /\ follows' = follow(req[p].user, req[p].target)
    /\ IF followReturns(req[p].user, req[p].target)
       THEN req' = [req EXCEPT ![p].pc = "notify"]
       ELSE Done(p, "400")
    /\ UNCHANGED notifications
    /\ FollowFrame

\* Notification.create_notification(user=target_user, notification_type='follow')
FollowUserNotify(p) ==
    /\ req[p].op = "follow_user" /\ req[p].pc = "notify"
    /\ notifications' = Append(notifications,
                               [user |-> req[p].target, notification_type |-> "follow",
                                actor |-> req[p].user, object_id |-> 0])
    /\ Done(p, "200")
    /\ UNCHANGED follows
    /\ FollowFrame

\* DELETE /users/<pk>/follow/
StartUnfollowUser(p, u, v) ==
    StartReq(p, [IdleReq EXCEPT !.op = "unfollow_user", !.pc = "load",
                                !.user = u, !.target = v])

\* permission_classes and get_object; no object permission is checked
UnfollowUserLoad(p) ==
    /\ req[p].op = "unfollow_user" /\ req[p].pc = "load"
    /\ IF ~IsAuthenticated(req[p].user) THEN Done(p, "401")
       ELSE IF req[p].target \notin Users THEN Done(p, "404")
       ELSE req' = [req EXCEPT ![p].pc = "unfollow"]
    /\ UNCHANGED <<db, started>>

\* request.user.unfollow(target_user)
UnfollowUserRemove(p) ==
    /\ req[p].op = "unfollow_user" /\ req[p].pc = "unfollow"
    /\ follows' = unfollow(req[p].user, req[p].target)
    /\ Done(p, "200")
    /\ UNCHANGED notifications
    /\ FollowFrame

InitFollow ==
    /\ recipes = [r \in RecipeIds |-> NoRecipe]
    /\ nextRecipeId = 1
    /\ ingredients = [r \in RecipeIds |-> <<>>]
    /\ versions = [r \in RecipeIds |-> <<>>]
    /\ ratings = {}
    /\ nextRatingId = 1
    /\ notifications = <<>>
    /\ favorites = {}
    /\ nextFavoriteId = 1
    /\ comments = {}
    /\ nextCommentId = 1
    /\ pageCache = NoPage
    /\ follows \in {<<>>, <<<<"bob", "alice">>>>}
    /\ messages = <<>>
    /\ now = 1
    /\ req = [p \in Procs |-> IdleReq]
    /\ started = 0

NextFollow ==
    \E p \in Procs :
        \/ \E u \in Users, v \in Users : StartFollowCall(p, u, v)
        \/ \E u \in Actors, v \in Users \cup {NoSuchUser} : StartFollowUser(p, u, v)
        \/ \E u \in Actors, v \in Users \cup {NoSuchUser} : StartUnfollowUser(p, u, v)
        \/ FollowCall(p)
        \/ FollowUserLoad(p)
        \/ FollowUserAdd(p)
        \/ FollowUserNotify(p)
        \/ UnfollowUserLoad(p)
        \/ UnfollowUserRemove(p)
        \/ Finish(p)

SpecFollow == InitFollow /\ [][NextFollow]_vars

\* the distinct edges of the follow graph
FollowEdges == {follows[i] : i \in 1..Len(follows)}

\* C23: no user follows themselves, and follow(self) returns False and
\* changes nothing; an unfollow leaves the follower not following the
\* target, also right after a follow; and the table holds every edge once, so
\* that the follower and following counts are the numbers of distinct edges.
FollowGraphSound ==
    /\ [](/\ \A u \in Users : ~is_following(u, u)
          /\ Len(follows) = Cardinality(FollowEdges)
          /\ \A u \in Users :
               /\ get_follower_count(u) = Cardinality({e \in FollowEdges : e[2] = u})
               /\ get_following_count(u) = Cardinality({e \in FollowEdges : e[1] = u}))
    /\ [][\A p \in Procs :
            /\ (req[p].op = "follow" /\ req[p].pc = "call" /\ req'[p].pc = "done"
                /\ req[p].target = req[p].user)
               => req'[p].result = "False" /\ UNCHANGED db
            /\ (req[p].op = "unfollow_user" /\ req[p].pc = "unfollow"
                /\ req'[p].pc = "done")
               => ~is_following(req[p].user, req[p].target)']_vars

\* two requests have followed the same user and one edge is stored
FollowedTwice ==
    /\ req["p1"].pc = "done" /\ req["p2"].pc = "done"
    /\ req["p1"].result \in {"200", "True"}
    /\ req["p2"].result \in {"200", "True"}
    /\ req["p1"].user = req["p2"].user
    /\ req["p1"].target = req["p2"].target
    /\ Len(SelectSeq(follows, LAMBDA e : e = <<req["p1"].user, req["p1"].target>>)) = 1

----------------------------------------------------------------------------
(* Private messages: Message, Message.mark_as_read and MessagingViewSet *)

\* the clock does not run past this value
MaxTime == 3

\* read_at = None
NoTime == 0

\* a row of users_message as the serializer creates it
MessageRow(sender, receiver, content) ==
    [sender |-> sender, receiver |-> receiver, content |-> content,
     is_read |-> FALSE, read_at |-> NoTime]

\* time passes between two statements
Tick ==
    /\ now < MaxTime
    /\ now' = now + 1
    /\ UNCHANGED <<recipes, nextRecipeId, ingredients, versions, feedback,
                   favorites, nextFavoriteId, comments, nextCommentId,
                   pageCache, follows, messages, req, started>>

MessageFrame ==
    UNCHANGED <<recipes, nextRecipeId, ingredients, versions, ratings,
                nextRatingId, favorites, nextFavoriteId, comments,
                nextCommentId, pageCache, follows, now, started>>

\* POST /users/<user_id>/messages/
SendMessageReq(u, uid, receiver, content) ==
    [IdleReq EXCEPT !.op = "send_message", !.pc = "validate", !.user = u,
                    !.target = uid,
                    !.data = [receiver |-> receiver, content |-> content]]

StartSendMessage(p, u, uid, receiver, content) ==
    StartReq(p, SendMessageReq(u, uid, receiver, content))

\* MessageSerializer.is_valid: the receiver exists and is not the sender, the
\* contents are not blank
ValidMessage(u, d) ==
    /\ d.receiver \in Users
    /\ d.receiver # u
    /\ ValidComment(d.content)

\* permission_classes, the user_id test and serializer.is_valid
SendValidate(p) ==
    /\ req[p].op = "send_message" /\ req[p].pc = "validate"
    /\ IF ~IsAuthenticated(req[p].user) THEN Done(p, "401")
       ELSE IF req[p].user # req[p].target THEN Done(p, "403")
       ELSE IF ~ValidMessage(req[p].user, req[p].data) THEN Done(p, "400")
       ELSE req' = [req EXCEPT ![p].pc = "save"]
    /\ UNCHANGED <<db, started>>

\* serializer.save() -> MessageSerializer.create
SendSave(p) ==
    /\ req[p].op = "send_message" /\ req[p].pc = "save"
    /\ messages' = Append(messages, MessageRow(req[p].user, req[p].data.receiver,
                                               strip(req[p].data.content)))
    /\ req' = [req EXCEPT ![p].pc = "notify", ![p].msg = Len(messages) + 1]
    /\ UNCHANGED notifications
    /\ MessageFrame

\* Notification.create_notification(user=message.receiver, 'message')
SendNotify(p) ==
    /\ req[p].op = "send_message" /\ req[p].pc = "notify"
    /\ notifications' = Append(notifications,
                               [user |-> req[p].data.receiver,
                                notification_type |-> "message",
                                actor |-> req[p].user, object_id |-> req[p].msg])
    /\ Done(p, "201")
    /\ UNCHANGED messages
    /\ MessageFrame

\* GET or PUT /users/<user_id>/messages/<message_id>/
GetOrMarkReq(u, uid, mid, method) ==
    [IdleReq EXCEPT !.op = method, !.pc = "load", !.user = u,
                    !.target = uid, !.msg = mid]

StartGetOrMark(p, u, uid, mid, method) ==
    StartReq(p, GetOrMarkReq(u, uid, mid, method))

\* get_or_mark_message up to the call of mark_as_read: the user_id test,
\* get_object_or_404 over the messages the user sent or received, and the
\* receiver tests of GET and PUT
MessageLoad(p) ==
    /\ req[p].op \in {"get_message", "put_message"} /\ req[p].pc = "load"
    /\ IF ~IsAuthenticated(req[p].user) THEN Done(p, "401")
       ELSE IF req[p].user # req[p].target THEN Done(p, "403")
       ELSE IF \/ req[p].msg \notin 1..Len(messages)
               \/ req[p].user \notin {messages[req[p].msg].sender,
                                      messages[req[p].msg].receiver}
            THEN Done(p, "404")
       ELSE LET message == messages[req[p].msg]
            IN  IF message.receiver = req[p].user
                THEN req' = [req EXCEPT ![p].pc = "mark", ![p].loaded = message]
                ELSE IF req[p].op = "put_message" THEN Done(p, "403")
                ELSE req' = [req EXCEPT ![p].pc = "done", ![p].result = "200",
                                        ![p].loaded = message]
    /\ UNCHANGED <<db, started>>

\* Message.mark_as_read on the instance the request loaded:
\* save(update_fields=['is_read', 'read_at'])
mark_as_read(p) ==
    IF ~req[p].loaded.is_read
    THEN messages' = [messages EXCEPT ![req[p].msg].is_read = TRUE,
                                      ![req[p].msg].read_at = now]
    ELSE UNCHANGED messages

\* message.mark_as_read() and the response
MessageMark(p) ==
    /\ req[p].op \in {"get_message", "put_message"} /\ req[p].pc = "mark"
    /\ mark_as_read(p)
    /\ Done(p, "200")
    /\ UNCHANGED notifications
    /\ MessageFrame

MessageContents == {"hello", "  "}

InitMessage ==
    /\ recipes = [r \in RecipeIds |-> NoRecipe]
    /\ nextRecipeId = 1
    /\ ingredients = [r \in RecipeIds |-> <<>>]
    /\ versions = [r \in RecipeIds |-> <<>>]
    /\ ratings = {}
    /\ nextRatingId = 1
    /\ notifications = <<>>
    /\ favorites = {}
    /\ nextFavoriteId = 1
    /\ comments = {}
    /\ nextCommentId = 1
    /\ pageCache = NoPage
    /\ follows = <<>>
    /\ messages = <<MessageRow("alice", "bob", "hi")>>
    /\ now = 1
    /\ req = [p \in Procs |-> IdleReq]
    /\ started = 0

NextMessage ==
    \/ \E p \in Procs :
        \/ \E u \in Actors, uid \in Users, v \in Users \cup {NoSuchUser},
              c \in MessageContents : StartSendMessage(p, u, uid, v, c)
        \/ \E u \in Actors, uid \in Users, mid \in 1..2,
              method \in {"get_message", "put_message"} :
              StartGetOrMark(p, u, uid, mid, method)
        \/ SendValidate(p)
        \/ SendSave(p)
        \/ SendNotify(p)
        \/ MessageLoad(p)
        \/ MessageMark(p)
        \/ Finish(p)
    \/ Tick

SpecMessage == InitMessage /\ [][NextMessage]_vars

\* the step is a GET or PUT of the receiver of message m marking it
MarkedByReceiver(m) ==
    \E p \in Procs :
        /\ req[p].op \in {"get_message", "put_message"}
        /\ req[p].pc = "mark" /\ req'[p].pc = "done"
        /\ req[p].msg = m
        /\ req[p].user = messages[m].receiver
        /\ req[p].user # messages[m].sender

\* a message starts unread, is_read holds exactly when read_at is set, only a
\* request of the receiver marks it, and a PUT of the sender is refused
MessageReadRules ==
    /\ [](\A m \in 1..Len(messages) :
            messages[m].is_read <=> messages[m].read_at # NoTime)
    /\ [][/\ \A m \in 1..Len(messages') :
               IF m \in 1..Len(messages)
               THEN /\ messages[m].is_read => messages'[m].is_read
                    /\ messages'[m] # messages[m] => MarkedByReceiver(m)
               ELSE ~messages'[m].is_read /\ messages'[m].read_at = NoTime
          /\ \A p \in Procs :
               (/\ req[p].op = "put_message" /\ req[p].pc = "load"
                /\ req'[p].pc = "done"
                /\ req[p].msg \in 1..Len(messages)
                /\ req[p].user = messages[req[p].msg].sender)
               => req'[p].result \in {"403", "404"} /\ UNCHANGED messages]_vars

\* C24: a message starts unread with read_at empty; is_read is true exactly
\* when read_at is set; a read message never becomes unread and its read_at
\* never changes again; only a GET or PUT of the receiver marks a message,
\* and a PUT of the sender is refused.
MessageReadOnce ==
    /\ MessageReadRules
    /\ [][\A m \in 1..Len(messages) :
            messages[m].is_read => messages'[m].read_at = messages[m].read_at]_vars

----------------------------------------------------------------------------
(* Rating requests of different users that run concurrently *)

NextRateRace ==
    \E p \in Procs :
        \/ \E u \in Users, v \in RatingValues : StartRate(p, u, 1, v)
        \/ RateLoad(p)
        \/ RateUpsert(p)
        \/ RateExists(p)
        \/ RateAvg(p)
        \/ RateCount(p)
        \/ RateSave(p)
        \/ RateNotify(p)
        \/ Finish(p)

SpecRateRace == InitRating /\ [][NextRateRace]_vars

\* the two rating requests of different users overlapped and have completed
RatedConcurrently ==
    /\ \A p \in Procs :
         /\ req[p].op = "rate" /\ req[p].pc = "done" /\ req[p].result = "ok"
         /\ ~req[p].alone
         /\ req[p].rid = 1
    /\ req["p1"].user # req["p2"].user

----------------------------------------------------------------------------
(* Counting views: retrieves of the same recipes, also concurrently *)

NextViews ==
    \E p \in Procs :
        \/ \E u \in Actors, rid \in RecipeIds : StartRetrieve(p, u, rid)
        \/ RetrieveLoad(p)
        \/ RetrieveCount(p)

SpecViews == InitVisibility /\ [][NextViews]_vars

\* the retrieves of recipe rid that have counted a view and responded
CountedRetrieves(rid) ==
    {p \in Procs : /\ req[p].op = "retrieve" /\ req[p].pc = "done"
                   /\ req[p].rid = rid /\ req[p].result = "ok"
                   /\ req[p].inst.visibility = "public"}

\* C26: a retrieve of a public recipe adds exactly 1 to the stored
\* view_count and changes no other field; after k retrieves, concurrent ones
\* included, view_count has grown by k; and view_count never decreases.
ViewsCountedExactly ==
    /\ [][\A p \in Procs :
            (/\ req[p].op = "retrieve" /\ req[p].pc = "count" /\ req'[p].pc = "done"
             /\ req[p].inst.visibility = "public" /\ req'[p].result = "ok")
            => recipes' = [recipes EXCEPT ![req[p].rid].view_count = @ + 1]]_vars
    /\ [](\A rid \in RecipeIds :
            recipes[rid].exists /\ (\A p \in Procs : ~InFlight(p))
            => recipes[rid].view_count = Cardinality(CountedRetrieves(rid)))
    /\ [][\A rid \in RecipeIds :
            recipes'[rid].view_count >= recipes[rid].view_count]_vars

----------------------------------------------------------------------------
(* The latest version and the live recipe *)

\* the version of recipe rid with the highest number
LatestVersion(rid) ==
    CHOOSE v \in {versions[rid][i] : i \in 1..Len(versions[rid])} :
        v.version_number = MaxVersionNumber(versions[rid])

\* no create or update request for recipe rid is in flight
NoWriterInFlight(rid) ==
    \A p \in Procs :
        ~(InFlight(p) /\ req[p].op \in {"create", "update"} /\ req[p].rid = rid)

\* C27: whenever no create or update request for a recipe is in flight, the
\* title, description, instructions and ingredients_snapshot of its
\* highest-numbered version equal the stored title, description,
\* instructions and ingredient rows of the recipe.
LatestVersionIsLive ==
    \A rid \in RecipeIds :
        (recipes[rid].exists /\ versions[rid] # <<>> /\ NoWriterInFlight(rid))
        => LET v == LatestVersion(rid)
           IN  /\ v.title = recipes[rid].title
               /\ v.description = recipes[rid].description
               /\ v.instructions = recipes[rid].instructions
               /\ v.ingredients_snapshot = Snapshot(QueryIngredients(rid))

----------------------------------------------------------------------------
(* Concurrent updates of disjoint fields *)

\* p and q are completed updates of one recipe that ran side by side and
\* were asked to change disjoint sets of fields
DisjointUpdatesDone(p, q) ==
    /\ p # q
    /\ req[p].op = "update" /\ req[q].op = "update"
    /\ req[p].pc = "done" /\ req[q].pc = "done"
    /\ req[p].result = "ok" /\ req[q].result = "ok"
    /\ req[p].rid = req[q].rid
    /\ ~req[p].alone /\ ~req[q].alone
    /\ DOMAIN req[p].data \subseteq WritableFields
    /\ DOMAIN req[q].data \subseteq WritableFields
    /\ DOMAIN req[p].data \cap DOMAIN req[q].data = {}

\* C28: after two concurrent update requests for one recipe that change
\* disjoint sets of fields have both completed, the stored recipe carries
\* both changes; and the save of an update request writes no stale value
\* into a field that the request was not asked to change.
NoLostFieldUpdate ==
    /\ [](\A p, q \in Procs :
            DisjointUpdatesDone(p, q)
            => \A f \in DOMAIN req[p].data : recipes[req[p].rid][f] = req[p].data[f])
    /\ [][\A p \in Procs :
            (req[p].op = "update" /\ req[p].pc = "save" /\ req'[p].pc # "save")
            => \A f \in WritableFields \ DOMAIN req[p].data :
                 recipes'[req[p].rid][f] = recipes[req[p].rid][f]]_vars

----------------------------------------------------------------------------
(* Snapshots and reads beside a replacement of the ingredient list *)

ReplaceInputs ==
    { [description |-> "d2"],
      [ingredients_data |-> <<IngSalt>>],
      [serving_size |-> 2, ingredients_data |-> <<IngFlour, IngEgg>>] }

NextReplace ==
    \E p \in Procs :
        \/ \E d \in ReplaceInputs : StartUpdate(p, "alice", 1, d)
        \/ StartScale(p, 1, 8)
        \/ UpdateLoad(p)
        \/ UpdateSave(p)
        \/ UpdateDeleteIngredients(p)
        \/ InsertIngredient(p)
        \/ VersionRead(p)
        \/ VersionInsert(p)
        \/ ScaleGuard(p)
        \/ ScaleRead(p)
        \/ Finish(p)

SpecReplace == InitUpdate /\ [][NextReplace]_vars

\* the complete ingredient lists that the create of recipe 1 and the update
\* requests supply
SuppliedLists ==
    {<<IngFlour, IngEgg>>}
        \cup {d.ingredients_data : d \in {x \in ReplaceInputs : "ingredients_data" \in DOMAIN x}}

\* C29: every ingredients_snapshot of a stored version and every ingredient
\* list that a scale call returns is one of the complete ingredient lists
\* that a create or update request supplied for the recipe: not the empty or
\* partial list between the delete and the inserts of a concurrent update,
\* and not a mixture of two lists.
OnlyCompleteIngredientLists ==
    /\ \A i \in 1..Len(versions[1]) :
         \E l \in SuppliedLists :
            versions[1][i].ingredients_snapshot = Snapshot(Ordered(RowsOf(l)))
    /\ \A p \in Procs :
         (req[p].op = "scale" /\ req[p].pc = "done" /\ req[p].result = "ok")
         => \E l \in SuppliedLists :
               req[p].out = ScaledIngredients(Ordered(RowsOf(l)),
                                              req[p].data.new_serving_size,
                                              req[p].inst.serving_size)

====
